---- MODULE Spec2Model ----
(***************************************************************************)
(* wiza-rs: a terminal provisioning runner.  The model covers the step     *)
(* file validation (model.rs), the step handlers and the run_step pipeline *)
(* (executor.rs) and the event loop with its two interactive overlays      *)
(* (tui.rs).                                                               *)
(*                                                                         *)
(* Strings are sequences of one-character tokens.  Option<T> is a sequence *)
(* of length 0 (None) or 1 (Some).  Indices (current, cursor, selection)   *)
(* are 0-based as in the source; sequences are indexed with +1.            *)
(*                                                                         *)
(* The environment: a spawned command either cannot be started             *)
(* ("spawn_err") or exits with a code ("exit0", "exit1").  The scripts     *)
(* `true` and `false` exit 0 and 1 when they start; the exit code of every *)
(* other command (git, sudo) is chosen by the environment.  The crossterm  *)
(* calls (enable_raw_mode, disable_raw_mode, draw, poll, read) are taken   *)
(* to succeed.                                                             *)
(***************************************************************************)
EXTENDS Integers, Sequences, FiniteSets, TLC

VARIABLES
    steps,       \* App.steps: the step list handed to main
    runtimes,    \* App.runtimes: one [status, log] per step
    current,     \* App.current: index of the step at the cursor (0-based)
    global_log,  \* App.global_log
    log_scroll,  \* App.log_scroll (u16)
    mode,        \* App.mode: InteractiveMode
    raw,         \* whether the terminal is in raw mode
    pc,          \* where the program is: main, sudo, loop, restore, exited, unit
    result,      \* the Result returned by run() / main()
    last         \* history: the handler invoked by the last event

vars == <<steps, runtimes, current, global_log, log_scroll, mode, raw, pc, result, last>>

----------------------------------------------------------------------------
(* Bounds of the model *)

\* a new run, skip or overlay session starts only while the logs hold fewer entries
MaxLog == 4
\* a character is typed into the git-config form only while its three buffers
\* hold fewer characters in total
MaxBuf == 2
\* scroll-down and page-down are taken only below this offset, scroll-up only
\* up to it (page-up at any offset)
MaxScroll == 1
\* length of the name and of the email handed to apply_git_config when it is
\* called directly
MaxStr == 2
\* number of apps of an app-selection step
MaxApps == 2

\* u16::MAX, the top of log_scroll's range
U16Max == 65535

----------------------------------------------------------------------------
(* Strings and Option *)

None == << >>
Some(x) == <<x>>

\* the characters of the model: a whitespace, a letter, a single quote
Chars == {" ", "a", "'"}

\* the characters typed into the git-config overlay: a whitespace and the
\* letter `s`, which is the skip key of the dashboard
TypedChars == {" ", "s"}

StrUpTo(n) == UNION {[1..k -> Chars] : k \in 0..n}

RECURSIVE TrimStart(_)
TrimStart(s) ==
    IF s = << >> THEN s
    ELSE IF s[1] = " " THEN TrimStart(Tail(s)) ELSE s

RECURSIVE TrimEnd(_)
TrimEnd(s) ==
    IF s = << >> THEN s
    ELSE IF s[Len(s)] = " " THEN TrimEnd(SubSeq(s, 1, Len(s) - 1)) ELSE s

\* str::trim
Trim(s) == TrimEnd(TrimStart(s))

\* str::replace('\'', "\\'")
RECURSIVE ReplaceQuote(_)
ReplaceQuote(s) ==
    IF s = << >> THEN << >>
    ELSE (IF s[1] = "'" THEN <<"\\", "'">> ELSE <<s[1]>>) \o ReplaceQuote(Tail(s))

----------------------------------------------------------------------------
(* Results, log entries, command outcomes *)

Ok == [kind |-> "Ok", msg |-> "", cmd |-> << >>]
Err(kind, msg, cmd) == [kind |-> kind, msg |-> msg, cmd |-> cmd]

\* one push_str onto a log
Line(t) == [t |-> t, c |-> << >>, x |-> ""]
LineC(t, c) == [t |-> t, c |-> c, x |-> ""]

\* what the environment answers to Command::new("bash").arg("-c").arg(cmd)
Outcome == {"spawn_err", "exit0", "exit1"}

TrueCmd == <<"true">>
FalseCmd == <<"false">>

Outcomes(cmd) ==
    IF cmd = TrueCmd THEN {"spawn_err", "exit0"}
    ELSE IF cmd = FalseCmd THEN {"spawn_err", "exit1"}
    ELSE Outcome

OutcomesOpt(opt) == IF opt = None THEN {"exit0"} ELSE Outcomes(opt[1])

\* run_command / run_command_streaming: Err when the process cannot be started
SpawnError(cmd) == Err("SpawnError", "Failed to execute command", cmd)

\* append_output: the label and the exit code of a captured command
append_output(log, label, out) ==
    Append(log, [t |-> "output", c |-> label, x |-> out])

\* one attempt to run a command (or to append to a file): the stage of the
\* step it belongs to, its position there (the number of the git command, the
\* index of the app), the command and the environment's answer
Attempt(stage, n, cmd, out) == [stage |-> stage, n |-> n, cmd |-> cmd, out |-> out]

----------------------------------------------------------------------------
(* executor.rs *)

SudoCmd == <<"sudo -v">>

\* start_sudo_session(log) with the environment's answer o to `sudo -v`
start_sudo_session(log, o) ==
    LET log1 == Append(log, Line("Initializing sudo session"))
        tr == <<Attempt("sudo", 0, SudoCmd, o)>>
    IN  IF o = "spawn_err"
        THEN [log |-> log1, res |-> SpawnError(SudoCmd), trace |-> tr]
        ELSE LET log2 == append_output(log1, SudoCmd, o)
             IN  IF o # "exit0"
                 THEN [log |-> log2,
                       res |-> Err("CommandFailure",
                                   "sudo -v failed; sudo may not be available", SudoCmd),
                       trace |-> tr]
                 ELSE [log |-> log2, res |-> Ok, trace |-> tr]

\* what the filesystem answers to the append of run_add_text
WriteOutcome == {"written", "open_err", "write_err"}

\* run_add_text(params, log)
run_add_text(params, log, o) ==
    LET tr == <<Attempt("add_text", 0, params.file, o)>>
    IN  IF o = "open_err"
        THEN [log |-> log, res |-> Err("WriteError", "Failed to open file", params.file),
              trace |-> tr]
        ELSE IF o = "write_err"
        THEN [log |-> log, res |-> Err("WriteError", "Failed to write to file", params.file),
              trace |-> tr]
        ELSE [log |-> Append(log, LineC("Appended content to", params.file)),
              res |-> Ok, trace |-> tr]

\* EnterStep starting the log anew
EnterStep_logCleared(step, runtime) ==
    [status |-> "Running",
     log |-> <<LineC("== Running step ==", step.name)>>,
     res |-> Ok, trace |-> << >>, done |-> FALSE, path |-> <<"Running">>]
\* EnterStep leaving the status as it finds it
EnterStep_statusKept(step, runtime) ==
    [status |-> runtime.status,
     log |-> Append(runtime.log, LineC("== Running step ==", step.name)),
     res |-> Ok, trace |-> << >>, done |-> FALSE, path |-> << >>]
\* run_step, lines 59-60: the state of the pipeline on entry.  `done` is set
\* by a `return` (an early Ok(()) or the error of a `?`); `path` holds the
\* statuses assigned to the runtime so far, in order.
EnterStep(step, runtime) ==
    [status |-> "Running",
     log |-> Append(runtime.log, LineC("== Running step ==", step.name)),
     res |-> Ok, trace |-> << >>, done |-> FALSE, path |-> <<"Running">>]

\* run_step, lines 63-72: the pre-script
PreStage(step, m, o) ==
    IF m.done \/ step.pre_script = None THEN m
    ELSE LET pre == step.pre_script[1]
             log1 == Append(m.log, Line("--- pre_script ---"))
             tr == Append(m.trace, Attempt("pre_script", 0, pre, o))
         IN  IF o = "spawn_err"
             THEN [m EXCEPT !.log = log1, !.res = SpawnError(pre), !.trace = tr,
                            !.done = TRUE]
             ELSE LET log2 == append_output(log1, pre, o)
                  IN  IF o # "exit0"
                      THEN [m EXCEPT
                              !.log = Append(log2,
                                        Line("pre_script failed; step will be skipped.")),
                              !.status = "Skipped", !.path = Append(m.path, "Skipped"),
                              !.trace = tr, !.done = TRUE]
                      ELSE [m EXCEPT !.log = log2, !.trace = tr]

\* ScriptStage with a nonzero exit of the main script ignored
ScriptStage_keepGoing(step, m, o) ==
    IF step.script = None
    THEN [m EXCEPT !.log = Append(m.log, Line("No script specified for script step."))]
    ELSE LET script == step.script[1]
             log1 == Append(m.log, Line("--- script ---"))
             tr == Append(m.trace, Attempt("script", 0, script, o))
         IN  IF o = "spawn_err"
             THEN [m EXCEPT !.log = log1, !.res = SpawnError(script), !.trace = tr,
                            !.done = TRUE]
             ELSE [m EXCEPT !.log = append_output(log1, script, o), !.trace = tr]

\* run_step, lines 76-88: the main script of a Script step
ScriptStage(step, m, o) ==
    IF step.script = None
    THEN [m EXCEPT !.log = Append(m.log, Line("No script specified for script step."))]
    ELSE LET script == step.script[1]
             log1 == Append(m.log, Line("--- script ---"))
             tr == Append(m.trace, Attempt("script", 0, script, o))
         IN  IF o = "spawn_err"
             THEN [m EXCEPT !.log = log1, !.res = SpawnError(script), !.trace = tr,
                            !.done = TRUE]
             ELSE LET log2 == append_output(log1, script, o)
                  IN  IF o # "exit0"
                      THEN [m EXCEPT !.log = log2, !.status = "Failed",
                                     !.path = Append(m.path, "Failed"), !.trace = tr,
                                     !.done = TRUE]
                      ELSE [m EXCEPT !.log = log2, !.trace = tr]

\* AddTextStage with the error of run_add_text swallowed
AddTextStage_errorSwallowed(step, m, o) ==
    LET log1 == Append(m.log, LineC("--- add_text to ---", step.params.file))
        r == run_add_text(step.params, log1, o)
    IN  [m EXCEPT !.log = r.log, !.trace = m.trace \o r.trace]
\* run_step, lines 89-93: the append of an AddText step
AddTextStage(step, m, o) ==
    LET log1 == Append(m.log, LineC("--- add_text to ---", step.params.file))
        r == run_add_text(step.params, log1, o)
    IN  [m EXCEPT !.log = r.log, !.res = r.res, !.trace = m.trace \o r.trace,
                  !.done = (r.res # Ok)]

\* run_step, lines 75-104: the dispatch on the kind
MainStage(step, m, o) ==
    IF m.done THEN m
    ELSE CASE step.kind = "Script" -> ScriptStage(step, m, o)
           [] step.kind = "AddText" -> AddTextStage(step, m, o)
           [] step.kind = "GitConfig" ->
                [m EXCEPT !.log = Append(m.log, Line("--- git_config (handled by TUI) ---"))]
           [] step.kind = "AppSelection" ->
                [m EXCEPT !.log = Append(m.log,
                                     Line("--- app_selection (handled by TUI) ---"))]

\* PostStage running the post-script after an early return too
PostStage_afterReturn(step, m, o) ==
    IF step.post_script = None THEN m
    ELSE LET post == step.post_script[1]
             log1 == Append(m.log, Line("--- post_script ---"))
             tr == Append(m.trace, Attempt("post_script", 0, post, o))
         IN  IF o = "spawn_err"
             THEN [m EXCEPT !.log = log1, !.res = SpawnError(post), !.trace = tr,
                            !.done = TRUE]
             ELSE LET log2 == append_output(log1, post, o)
                  IN  IF o # "exit0"
                      THEN [m EXCEPT !.log = log2, !.status = "Failed",
                                     !.path = Append(m.path, "Failed"), !.trace = tr,
                                     !.done = TRUE]
                      ELSE [m EXCEPT !.log = log2, !.trace = tr]
\* run_step, lines 107-115: the post-script
PostStage(step, m, o) ==
    IF m.done \/ step.post_script = None THEN m
    ELSE LET post == step.post_script[1]
             log1 == Append(m.log, Line("--- post_script ---"))
             tr == Append(m.trace, Attempt("post_script", 0, post, o))
         IN  IF o = "spawn_err"
             THEN [m EXCEPT !.log = log1, !.res = SpawnError(post), !.trace = tr,
                            !.done = TRUE]
             ELSE LET log2 == append_output(log1, post, o)
                  IN  IF o # "exit0"
                      THEN [m EXCEPT !.log = log2, !.status = "Failed",
                                     !.path = Append(m.path, "Failed"), !.trace = tr,
                                     !.done = TRUE]
                      ELSE [m EXCEPT !.log = log2, !.trace = tr]

\* FinishStep leaving the status as it is
FinishStep_statusKept(m) == IF m.done THEN m ELSE [m EXCEPT !.done = TRUE]

\* run_step, lines 117-121
FinishStep(m) ==
    IF m.done THEN m
    ELSE [m EXCEPT !.status = IF m.status = "Running" THEN "Success" ELSE m.status,
                   !.path = IF m.status = "Running" THEN Append(m.path, "Success")
                            ELSE m.path,
                   !.done = TRUE]

\* the environment's answers to the commands of one run_step call
MainOutcomes(step) ==
    CASE step.kind = "Script" -> OutcomesOpt(step.script)
      [] step.kind = "AddText" -> WriteOutcome
      [] OTHER -> {"exit0"}

RunStepOracles(step) ==
    [pre : OutcomesOpt(step.pre_script), main : MainOutcomes(step),
     post : OutcomesOpt(step.post_script)]

\* run_step(step, runtime): the runtime's new status and log, the returned
\* Result and the commands attempted
run_step(step, runtime, o) ==
    FinishStep(PostStage(step,
                 MainStage(step, PreStage(step, EnterStep(step, runtime), o.pre), o.main),
                 o.post))

----------------------------------------------------------------------------
(* executor.rs: the handlers of the interactive steps *)

\* GitValues with the default editor taken as it is given
GitValues_defaultVerbatim(params, name, email, editor) ==
    [name |-> Trim(name),
     email |-> Trim(email),
     editor |-> IF Trim(editor) = << >> THEN params.default_editor
                ELSE Trim(editor)]
\* apply_git_config, lines 152-158: the values after trimming and defaulting
GitValues(params, name, email, editor) ==
    [name |-> Trim(name),
     email |-> Trim(email),
     editor |-> IF Trim(editor) = << >> THEN Trim(params.default_editor)
                ELSE Trim(editor)]

\* GitCmd without the escaping of the quotes
GitCmd_noEscape(key, value) == <<key, "'">> \o value \o <<"'">>

\* format!("git config --global <key> '{}'", value.replace('\'', "\\'"))
GitCmd(key, value) == <<key, "'">> \o ReplaceQuote(value) \o <<"'">>

\* apply_git_config, lines 167-177
GitCommands(v) ==
    <<GitCmd("git config --global user.name", v.name),
      GitCmd("git config --global user.email", v.email),
      GitCmd("git config --global core.editor", v.editor)>>

\* RunGitCommands going on after a command that exited nonzero
RECURSIVE RunGitCommands_keepGoing(_, _, _, _)
RunGitCommands_keepGoing(commands, i, acc, o) ==
    IF i > Len(commands) THEN acc
    ELSE LET cmd == commands[i]
             tr == Append(acc.trace, Attempt("git", i - 1, cmd, o[i]))
         IN  IF o[i] = "spawn_err"
             THEN [log |-> acc.log, res |-> SpawnError(cmd), trace |-> tr]
             ELSE RunGitCommands_keepGoing(commands, i + 1,
                     [log |-> append_output(acc.log, cmd, o[i]),
                      res |-> IF o[i] # "exit0"
                              THEN Err("CommandFailure", "Command failed", cmd)
                              ELSE acc.res,
                      trace |-> tr], o)
\* apply_git_config, lines 179-185: the loop over the commands from the i-th on
RECURSIVE RunGitCommands(_, _, _, _)
RunGitCommands(commands, i, acc, o) ==
    IF i > Len(commands) THEN acc
    ELSE LET cmd == commands[i]
             tr == Append(acc.trace, Attempt("git", i - 1, cmd, o[i]))
         IN  IF o[i] = "spawn_err"
             THEN [log |-> acc.log, res |-> SpawnError(cmd), trace |-> tr]
             ELSE LET log1 == append_output(acc.log, cmd, o[i])
                  IN  IF o[i] # "exit0"
                      THEN [log |-> log1,
                            res |-> Err("CommandFailure", "Command failed", cmd),
                            trace |-> tr]
                      ELSE RunGitCommands(commands, i + 1,
                                          [log |-> log1, res |-> Ok, trace |-> tr], o)

\* the environment's answers to the three commands; a command after the
\* first that fails is never run and has no answer, written "exit0"
GitOracles ==
    {o \in [1..3 -> Outcome] :
        \A i, j \in 1..3 : (i < j /\ o[i] # "exit0") => o[j] = "exit0"}

\* apply_git_config without the check of the email
apply_git_config_emailUnchecked(params, name, email, editor, log, o) ==
    LET v == GitValues(params, name, email, editor)
    IN  IF v.name = << >>
        THEN [log |-> log,
              res |-> Err("ValidationError", "Git user.name cannot be empty", << >>),
              trace |-> << >>]
        ELSE LET r == RunGitCommands(GitCommands(v), 1,
                                     [log |-> log, res |-> Ok, trace |-> << >>], o)
             IN  IF r.res = Ok
                 THEN [r EXCEPT !.log = Append(r.log, Line("Git configuration updated."))]
                 ELSE r

\* apply_git_config(params, name, email, editor, log)
apply_git_config(params, name, email, editor, log, o) ==
    LET v == GitValues(params, name, email, editor)
    IN  IF v.name = << >>
        THEN [log |-> log,
              res |-> Err("ValidationError", "Git user.name cannot be empty", << >>),
              trace |-> << >>]
        ELSE IF v.email = << >>
        THEN [log |-> log,
              res |-> Err("ValidationError", "Git user.email cannot be empty", << >>),
              trace |-> << >>]
        ELSE LET r == RunGitCommands(GitCommands(v), 1,
                                     [log |-> log, res |-> Ok, trace |-> << >>], o)
             IN  IF r.res = Ok
                 THEN [r EXCEPT !.log = Append(r.log, Line("Git configuration updated."))]
                 ELSE r

\* InstallApps stopping at the first install that exits nonzero
RECURSIVE InstallApps_stopOnFailure(_, _, _, _, _)
InstallApps_stopOnFailure(apps, selection, i, acc, o) ==
    IF i > Len(selection) THEN acc
    ELSE LET idx == selection[i]
         IN  IF idx + 1 \notin DOMAIN apps
             THEN InstallApps_stopOnFailure(apps, selection, i + 1, acc, o)
             ELSE LET app == apps[idx + 1]
                      out == o[idx + 1]
                      log1 == Append(acc.log, LineC("Installing", app.name))
                      tr == Append(acc.trace, Attempt("install", idx, app.install, out))
                  IN  IF out = "spawn_err"
                      THEN [log |-> log1, res |-> SpawnError(app.install), trace |-> tr]
                      ELSE IF out # "exit0"
                      THEN [log |-> Append(log1, LineC("Installation failed", app.name)),
                            res |-> Ok, trace |-> tr]
                      ELSE InstallApps_stopOnFailure(apps, selection, i + 1,
                             [log |-> log1, res |-> Ok, trace |-> tr], o)

\* InstallApps taking an install that cannot be started as one that failed
RECURSIVE InstallApps_spawnSkipped(_, _, _, _, _)
InstallApps_spawnSkipped(apps, selection, i, acc, o) ==
    IF i > Len(selection) THEN acc
    ELSE LET idx == selection[i]
         IN  IF idx + 1 \notin DOMAIN apps
             THEN InstallApps_spawnSkipped(apps, selection, i + 1, acc, o)
             ELSE LET app == apps[idx + 1]
                      out == o[idx + 1]
                      log1 == Append(acc.log, LineC("Installing", app.name))
                      tr == Append(acc.trace, Attempt("install", idx, app.install, out))
                  IN  InstallApps_spawnSkipped(apps, selection, i + 1,
                         [log |-> IF out # "exit0"
                                  THEN Append(log1, LineC("Installation failed", app.name))
                                  ELSE log1,
                          res |-> Ok, trace |-> tr], o)
\* apply_app_selection, lines 209-221: the loop over the selection from the
\* i-th index on.  o[idx + 1] is the environment's answer to the install
\* command of app idx.
RECURSIVE InstallApps(_, _, _, _, _)
InstallApps(apps, selection, i, acc, o) ==
    IF i > Len(selection) THEN acc
    ELSE LET idx == selection[i]
         IN  IF idx + 1 \notin DOMAIN apps
             THEN InstallApps(apps, selection, i + 1, acc, o)
             ELSE LET app == apps[idx + 1]
                      out == o[idx + 1]
                      log1 == Append(acc.log, LineC("Installing", app.name))
                      tr == Append(acc.trace, Attempt("install", idx, app.install, out))
                  IN  IF out = "spawn_err"
                      THEN [log |-> log1, res |-> SpawnError(app.install), trace |-> tr]
                      ELSE InstallApps(apps, selection, i + 1,
                             [log |-> IF out # "exit0"
                                      THEN Append(log1, LineC("Installation failed", app.name))
                                      ELSE log1,
                              res |-> Ok, trace |-> tr], o)

AppOracles(params) ==
    {o \in [DOMAIN params.apps -> Outcome] :
        \A i \in DOMAIN params.apps : o[i] \in Outcomes(params.apps[i].install)}

\* apply_app_selection(params, selection, log)
apply_app_selection(params, selection, log, o) ==
    IF params.apps = << >>
    THEN [log |-> Append(log, Line("No apps defined in this step.")), res |-> Ok,
          trace |-> << >>]
    ELSE IF selection = << >>
    THEN [log |-> Append(log, Line("No apps selected.")), res |-> Ok, trace |-> << >>]
    ELSE InstallApps(params.apps, selection, 1,
                     [log |-> log, res |-> Ok, trace |-> << >>], o)

----------------------------------------------------------------------------
(* model.rs *)

\* StepRuntime::default()
DefaultRuntime == [status |-> "Pending", log |-> << >>]

\* the params of the variants; the fields a kind does not have are empty
NoParams == [file |-> << >>, content |-> << >>, default_editor |-> << >>, apps |-> << >>]

\* StepFile::validate, lines 96-150: the error of one step, if any
StepError(step) ==
    IF Trim(step.name) = << >> THEN "has an empty name"
    ELSE CASE step.kind = "Script" ->
                IF step.script = None THEN "is missing 'script' field" ELSE "Ok"
           [] step.kind = "AddText" ->
                IF Trim(step.params.file) = << >> THEN "has empty 'file' param"
                ELSE IF step.params.content = << >> THEN "has empty 'content' param"
                ELSE "Ok"
           [] step.kind = "GitConfig" -> "Ok"
           [] step.kind = "AppSelection" ->
                IF step.params.apps = << >> THEN "must have at least one app"
                ELSE IF \E i \in DOMAIN step.params.apps :
                          /\ \A j \in 1..(i - 1) :
                                /\ Trim(step.params.apps[j].name) # << >>
                                /\ Trim(step.params.apps[j].install) # << >>
                          /\ Trim(step.params.apps[i].name) = << >>
                     THEN "has an app with empty name"
                ELSE IF \E i \in DOMAIN step.params.apps :
                          Trim(step.params.apps[i].install) = << >>
                     THEN "has empty install command"
                ELSE "Ok"

\* validate looking at the first step only
validate_firstStepOnly(ss) ==
    IF ss = << >> THEN "YAML must contain at least one step."
    ELSE StepError(ss[1])
\* StepFile::validate
validate(ss) ==
    IF ss = << >> THEN "YAML must contain at least one step."
    ELSE IF \E i \in DOMAIN ss : StepError(ss[i]) # "Ok"
    THEN StepError(ss[CHOOSE i \in DOMAIN ss :
                         /\ StepError(ss[i]) # "Ok"
                         /\ \A j \in 1..(i - 1) : StepError(ss[j]) = "Ok"])
    ELSE "Ok"

----------------------------------------------------------------------------
(* The step files main is started with *)

ScriptOpts == {None, Some(TrueCmd), Some(FalseCmd)}

Step(name, kind, pre, script, post, params) ==
    [name |-> name, kind |-> kind, pre_script |-> pre, script |-> script,
     post_script |-> post, params |-> params]

\* the i-th app of a step: its name is i letters long
AppDef(i, install) == [name |-> [j \in 1..i |-> "p"], version |-> <<"1">>, install |-> install]

AppLists ==
    UNION {{[i \in 1..n |-> AppDef(i, f[i])] : f \in [1..n -> {TrueCmd, FalseCmd}]} :
             n \in 1..MaxApps}

DefaultEditors == {<<"a">>, <<" ", "a">>}

ScriptSteps ==
    {Step(<<"s">>, "Script", pre, Some(main), post, NoParams) :
        pre \in ScriptOpts, main \in {TrueCmd, FalseCmd}, post \in ScriptOpts}

AddTextSteps ==
    {Step(<<"t">>, "AddText", pre, None, post,
          [NoParams EXCEPT !.file = <<"f">>, !.content = <<"c">>]) :
        pre \in ScriptOpts, post \in ScriptOpts}

\* the interactive steps of the files of one step have no pre_script and no
\* post_script; the files of two steps have interactive steps with them
GitConfigSteps ==
    {Step(<<"g">>, "GitConfig", None, None, None, [NoParams EXCEPT !.default_editor = d]) :
        d \in DefaultEditors}

AppSelectionSteps ==
    {Step(<<"i">>, "AppSelection", None, None, None, [NoParams EXCEPT !.apps = a]) :
        a \in AppLists}

\* an AddText step whose content is whitespace only (model.rs line 117 does
\* not trim the content)
BlankContentStep ==
    Step(<<"t">>, "AddText", None, None, None,
         [NoParams EXCEPT !.file = <<"f">>, !.content = <<" ">>])

ValidSteps ==
    ScriptSteps \cup AddTextSteps \cup GitConfigSteps \cup AppSelectionSteps
    \cup {BlankContentStep}

\* one step of each kind, for the files of two steps
PairScript == Step(<<"s">>, "Script", None, Some(FalseCmd), Some(TrueCmd), NoParams)
PairAddText ==
    Step(<<"t">>, "AddText", Some(TrueCmd), None, None,
         [NoParams EXCEPT !.file = <<"f">>, !.content = <<"c">>])
PairGitConfig ==
    Step(<<"g">>, "GitConfig", Some(FalseCmd), None, Some(TrueCmd),
         [NoParams EXCEPT !.default_editor = <<"a">>])
PairAppSelection ==
    Step(<<"i">>, "AppSelection", Some(FalseCmd), None, None,
         [NoParams EXCEPT !.apps = <<AppDef(1, FalseCmd)>>])

\* an interactive step comes last in one file and first in the other
TwoStepFiles ==
    {<<PairScript, PairGitConfig>>, <<PairAppSelection, PairAddText>>}

\* steps that validation rejects
InvalidSteps ==
    {Step(<<" ">>, "Script", None, Some(TrueCmd), None, NoParams),
     Step(<<"s">>, "Script", None, None, None, NoParams),
     Step(<<"t">>, "AddText", None, None, None,
          [NoParams EXCEPT !.file = <<" ">>, !.content = <<"c">>]),
     Step(<<"t">>, "AddText", None, None, None,
          [NoParams EXCEPT !.file = <<"f">>]),
     Step(<<"i">>, "AppSelection", None, None, None, NoParams),
     Step(<<"i">>, "AppSelection", None, None, None,
          [NoParams EXCEPT !.apps = <<AppDef(1, <<" ">>)>>]),
     Step(<<"i">>, "AppSelection", None, None, None,
          [NoParams EXCEPT !.apps = <<[AppDef(1, TrueCmd) EXCEPT !.name = << >>]>>])}

StepFiles ==
    {<< >>}
    \cup {<<s>> : s \in ValidSteps \cup InvalidSteps}
    \cup TwoStepFiles
    \cup {<<PairScript, s>> : s \in InvalidSteps}

----------------------------------------------------------------------------
(* tui.rs: the state of the App *)

ModeNone == [kind |-> "None"]

\* NewAppSelectionState with one bit too many
NewAppSelectionState_oneMore(params) ==
    [kind |-> "AppSelection", cursor |-> 0,
     selected |-> [i \in 1..(Len(params.apps) + 1) |-> FALSE]]

\* tui.rs lines 159-162
NewAppSelectionState(params) ==
    [kind |-> "AppSelection", cursor |-> 0,
     selected |-> [i \in 1..Len(params.apps) |-> FALSE]]

\* tui.rs lines 174-179
NewGitConfigState(params) ==
    [kind |-> "GitConfig", field |-> "Name", name |-> << >>, email |-> << >>,
     editor |-> params.default_editor]

\* tui.rs lines 243-248: the indices of the set bits, ascending
RECURSIVE SelectedFrom(_, _)
SelectedFrom(selected, i) ==
    IF i > Len(selected) THEN << >>
    ELSE (IF selected[i] THEN <<i - 1>> ELSE << >>) \o SelectedFrom(selected, i + 1)

SelectedIndices(selected) == SelectedFrom(selected, 1)

\* format!("\n[ERROR] {}\n", e)
ErrorLine(e) == [t |-> "[ERROR]", c |-> e.cmd, x |-> e.msg]

\* AfterRunStep with the error of run_step dropped
AfterRunStep_dropError(m) == [status |-> m.status, log |-> m.log]

\* tui.rs lines 190-194: the Result of run_step turned into the runtime
AfterRunStep(m) ==
    IF m.res # Ok
    THEN [status |-> "Failed", log |-> Append(m.log, ErrorLine(m.res))]
    ELSE [status |-> m.status, log |-> m.log]

\* AfterHandler with the error of the handler dropped
AfterHandler_errorDropped(rt, r) ==
    [status |-> IF rt.status = "Running" THEN "Success" ELSE rt.status, log |-> r.log]
\* tui.rs lines 251-257 and 333-344: the Result of a handler turned into the runtime
AfterHandler(rt, r) ==
    IF r.res # Ok
    THEN [status |-> "Failed", log |-> Append(r.log, ErrorLine(r.res))]
    ELSE [status |-> IF rt.status = "Running" THEN "Success" ELSE rt.status,
          log |-> r.log]

\* the statuses tui.rs assigns after run_step (lines 190-194), following
\* those run_step assigned
RunPath(m) == IF m.res # Ok THEN Append(m.path, "Failed") ELSE m.path

\* the status tui.rs assigns after a handler (lines 251-257 and 333-344)
HandlerPath(rt, r) ==
    IF r.res # Ok THEN <<"Failed">>
    ELSE IF rt.status = "Running" THEN <<"Success">> ELSE << >>

\* Cancelled with the status left as it is
Cancelled_keepStatus(rt, note) == [status |-> rt.status, log |-> Append(rt.log, Line(note))]

\* tui.rs lines 217-219 and 322-324
Cancelled(rt, note) == [status |-> "Pending", log |-> Append(rt.log, Line(note))]

RECURSIVE LogTotal(_)
LogTotal(rts) == IF rts = << >> THEN 0 ELSE Len(rts[1].log) + LogTotal(Tail(rts))

\* the bound on the logs: no new run, skip or overlay session once they are full
LogRoom == LogTotal(runtimes) < MaxLog

\* history of the last event: the key, the handler it invoked, on which step,
\* with which arguments, what it returned (rs: the status run_step left) and
\* the commands it attempted; released: raw mode was left for the call; path:
\* the statuses the event assigned to the runtime at the cursor, in order
NoCall ==
    [key |-> "none", fn |-> "none", idx |-> 0, arg |-> [none |-> TRUE], res |-> Ok,
     rs |-> "none", trace |-> << >>, released |-> FALSE, path |-> << >>]

Key(k) == [NoCall EXCEPT !.key = k]

Call(k, fn, idx, arg, res, rs, trace, released) ==
    [key |-> k, fn |-> fn, idx |-> idx, arg |-> arg, res |-> res, rs |-> rs,
     trace |-> trace, released |-> released, path |-> << >>]

WithPath(call, path) == [call EXCEPT !.path = path]

CurStep == steps[current + 1]
CurRuntime == runtimes[current + 1]

Init ==
    /\ steps \in StepFiles
    /\ runtimes = << >>
    /\ current = 0
    /\ global_log = << >>
    /\ log_scroll = 0
    /\ mode = ModeNone
    /\ raw = FALSE
    /\ pc = "main"
    /\ result = [kind |-> "none", msg |-> "", cmd |-> << >>]
    /\ last = NoCall

----------------------------------------------------------------------------
(* main.rs and the start of tui.rs *)

\* main.rs lines 21-25, run_tui lines 84-90, run lines 105-110: validate the
\* steps, enter raw mode, build the App, leave raw mode for the sudo prompt
Main ==
    /\ pc = "main"
    /\ IF validate(steps) # "Ok"
       THEN /\ pc' = "exited"
            /\ result' = Err("YamlError", validate(steps), << >>)
            /\ UNCHANGED <<runtimes, raw>>
       ELSE /\ pc' = "sudo"
            /\ runtimes' = [i \in 1..Len(steps) |-> DefaultRuntime]
            /\ raw' = FALSE
            /\ UNCHANGED result
    /\ UNCHANGED <<steps, current, global_log, log_scroll, mode, last>>

\* run lines 111-114: the privileged-session bootstrap
StartSudo ==
    /\ pc = "sudo"
    /\ \E o \in Outcome :
          LET r == start_sudo_session(<< >>, o)
          IN  /\ last' = Call("none", "start_sudo_session", 0, [none |-> TRUE], r.res, "none",
                              r.trace, TRUE)
              /\ IF r.res # Ok
                 THEN /\ pc' = "restore"
                      /\ result' = r.res
                      /\ UNCHANGED <<raw, global_log>>
                 ELSE /\ pc' = "loop"
                      /\ raw' = TRUE
                      /\ global_log' = global_log \o r.log
                      /\ UNCHANGED result
    /\ UNCHANGED <<steps, runtimes, current, log_scroll, mode>>

\* run_tui lines 92-101: run has returned, the terminal is restored
Restore ==
    /\ pc = "restore"
    /\ raw' = FALSE
    /\ pc' = "exited"
    /\ UNCHANGED <<steps, runtimes, current, global_log, log_scroll, mode, result, last>>

----------------------------------------------------------------------------
(* tui.rs: the keys of the dashboard (InteractiveMode::None) *)

\* Dashboard with the keys of the dashboard taken in every mode
Dashboard_anyMode == pc = "loop"

\* tui.rs line 127: the arm of the dashboard keys
Dashboard == pc = "loop" /\ mode.kind = "None"

\* SetCurRuntime writing to the first step whatever the cursor
SetCurRuntime_firstStep(rt) == runtimes' = [runtimes EXCEPT ![1] = rt]

\* App::current_runtime_mut, and the writes through it
SetCurRuntime(rt) == runtimes' = [runtimes EXCEPT ![current + 1] = rt]

\* KeyCode::Char('q')
KeyQuit ==
    /\ Dashboard
    /\ pc' = "restore"
    /\ result' = Ok
    /\ last' = Key("q")
    /\ UNCHANGED <<steps, runtimes, current, global_log, log_scroll, mode, raw>>

\* KeyNext without the test for the last step
KeyNext_unguarded ==
    /\ Dashboard
    /\ current' = current + 1 /\ log_scroll' = 0
    /\ last' = Key("n")
    /\ UNCHANGED <<steps, runtimes, global_log, mode, raw, pc, result>>
\* KeyCode::Char('n')
KeyNext ==
    /\ Dashboard
    /\ IF current + 1 < Len(steps)
       THEN current' = current + 1 /\ log_scroll' = 0
       ELSE UNCHANGED <<current, log_scroll>>
    /\ last' = Key("n")
    /\ UNCHANGED <<steps, runtimes, global_log, mode, raw, pc, result>>

\* KeyCode::Char('p')
KeyPrev ==
    /\ Dashboard
    /\ IF current > 0
       THEN current' = current - 1 /\ log_scroll' = 0
       ELSE UNCHANGED <<current, log_scroll>>
    /\ last' = Key("p")
    /\ UNCHANGED <<steps, runtimes, global_log, mode, raw, pc, result>>

\* KeySkip without the note in the log
KeySkip_noNote ==
    /\ Dashboard
    /\ LogRoom
    /\ SetCurRuntime([status |-> "Skipped", log |-> CurRuntime.log])
    /\ last' = WithPath(Key("s"), <<"Skipped">>)
    /\ UNCHANGED <<steps, current, global_log, log_scroll, mode, raw, pc, result>>
\* KeyCode::Char('s')
KeySkip ==
    /\ Dashboard
    /\ LogRoom
    /\ SetCurRuntime([status |-> "Skipped",
                      log |-> Append(CurRuntime.log, Line("Step manually skipped."))])
    /\ last' = WithPath(Key("s"), <<"Skipped">>)
    /\ UNCHANGED <<steps, current, global_log, log_scroll, mode, raw, pc, result>>

\* KeyCode::Enter on an AppSelection step
KeyEnterAppSelection ==
    /\ Dashboard
    /\ LogRoom
    /\ CurStep.kind = "AppSelection"
    /\ SetCurRuntime([status |-> "Running",
                      log |-> Append(CurRuntime.log,
                                     LineC("== Running step (app selection) ==",
                                           CurStep.name))])
    /\ mode' = NewAppSelectionState(CurStep.params)
    /\ log_scroll' = 0
    /\ last' = WithPath(Key("Enter"), <<"Running">>)
    /\ UNCHANGED <<steps, current, global_log, raw, pc, result>>

\* KeyEnterGitConfig opening the overlay on a step of any kind
KeyEnterGitConfig_anyKind ==
    /\ Dashboard
    /\ LogRoom
    /\ SetCurRuntime([status |-> "Running",
                      log |-> Append(CurRuntime.log,
                                     LineC("== Running step (git config) ==",
                                           CurStep.name))])
    /\ mode' = NewGitConfigState(CurStep.params)
    /\ log_scroll' = 0
    /\ last' = WithPath(Key("Enter"), <<"Running">>)
    /\ UNCHANGED <<steps, current, global_log, raw, pc, result>>
\* KeyCode::Enter on a GitConfig step
KeyEnterGitConfig ==
    /\ Dashboard
    /\ LogRoom
    /\ CurStep.kind = "GitConfig"
    /\ SetCurRuntime([status |-> "Running",
                      log |-> Append(CurRuntime.log,
                                     LineC("== Running step (git config) ==",
                                           CurStep.name))])
    /\ mode' = NewGitConfigState(CurStep.params)
    /\ log_scroll' = 0
    /\ last' = WithPath(Key("Enter"), <<"Running">>)
    /\ UNCHANGED <<steps, current, global_log, raw, pc, result>>

\* KeyEnterRun taking the interactive steps through run_step too
KeyEnterRun_anyKind ==
    /\ Dashboard
    /\ LogRoom
    /\ \E o \in RunStepOracles(CurStep) :
          LET m == run_step(CurStep, CurRuntime, o)
          IN  /\ SetCurRuntime(AfterRunStep(m))
              /\ last' = WithPath(Call("Enter", "run_step", current, [step |-> CurStep],
                                       m.res, m.status, m.trace, TRUE),
                                  RunPath(m))
    /\ raw' = TRUE
    /\ log_scroll' = 0
    /\ UNCHANGED <<steps, current, global_log, mode, pc, result>>
\* KeyCode::Enter on any other step: raw mode is left, run_step runs, raw
\* mode is entered again
KeyEnterRun ==
    /\ Dashboard
    /\ LogRoom
    /\ CurStep.kind \notin {"AppSelection", "GitConfig"}
    /\ \E o \in RunStepOracles(CurStep) :
          LET m == run_step(CurStep, CurRuntime, o)
          IN  /\ SetCurRuntime(AfterRunStep(m))
              /\ last' = WithPath(Call("Enter", "run_step", current, [step |-> CurStep],
                                       m.res, m.status, m.trace, TRUE),
                                  RunPath(m))
    /\ raw' = TRUE
    /\ log_scroll' = 0
    /\ UNCHANGED <<steps, current, global_log, mode, pc, result>>

\* u16::saturating_sub
SaturatingSub(x, n) == IF x < n THEN 0 ELSE x - n

\* SaturatingAdd wrapping around at the top of the u16 range
SaturatingAdd_wrapping(x, n) == (x + n) % (U16Max + 1)

\* u16::saturating_add
SaturatingAdd(x, n) == IF x + n > U16Max THEN U16Max ELSE x + n

Scroll(k, v) ==
    /\ Dashboard
    /\ log_scroll' = v
    /\ last' = Key(k)
    /\ UNCHANGED <<steps, runtimes, current, global_log, mode, raw, pc, result>>

\* KeyCode::Up
KeyUp == Scroll("Up", SaturatingSub(log_scroll, 1))

\* KeyCode::Down
KeyDown == Scroll("Down", SaturatingAdd(log_scroll, 1))

\* KeyCode::PageUp
KeyPageUp == Scroll("PageUp", SaturatingSub(log_scroll, 10))

\* KeyCode::PageDown
KeyPageDown == Scroll("PageDown", SaturatingAdd(log_scroll, 10))

\* the scroll keys as the whole program takes them: within MaxScroll
ScrollUp == log_scroll <= MaxScroll /\ KeyUp
ScrollDown == log_scroll < MaxScroll /\ KeyDown
ScrollPageUp == KeyPageUp
ScrollPageDown == log_scroll < MaxScroll /\ KeyPageDown

----------------------------------------------------------------------------
(* tui.rs: the keys of the app-selection overlay *)

InAppSelection == pc = "loop" /\ mode.kind = "AppSelection"

\* KeyCode::Esc
AppKeyEsc ==
    /\ InAppSelection
    /\ SetCurRuntime(Cancelled(CurRuntime, "App selection cancelled."))
    /\ mode' = ModeNone
    /\ log_scroll' = 0
    /\ last' = WithPath(Key("Esc"), <<"Pending">>)
    /\ UNCHANGED <<steps, current, global_log, raw, pc, result>>

\* KeyCode::Up
AppKeyUp ==
    /\ InAppSelection
    /\ mode' = IF mode.cursor > 0 THEN [mode EXCEPT !.cursor = mode.cursor - 1] ELSE mode
    /\ last' = Key("Up")
    /\ UNCHANGED <<steps, runtimes, current, global_log, log_scroll, raw, pc, result>>

\* AppKeyDown going round to the first app from the last
AppKeyDown_wrapping ==
    /\ InAppSelection
    /\ mode' = [mode EXCEPT !.cursor = (mode.cursor + 1) % Len(mode.selected)]
    /\ last' = Key("Down")
    /\ UNCHANGED <<steps, runtimes, current, global_log, log_scroll, raw, pc, result>>
\* KeyCode::Down
AppKeyDown ==
    /\ InAppSelection
    /\ mode' = IF mode.cursor + 1 < Len(mode.selected)
               THEN [mode EXCEPT !.cursor = mode.cursor + 1] ELSE mode
    /\ last' = Key("Down")
    /\ UNCHANGED <<steps, runtimes, current, global_log, log_scroll, raw, pc, result>>

\* KeyCode::Char(' ')
AppKeySpace ==
    /\ InAppSelection
    /\ mode' = IF mode.cursor + 1 \in DOMAIN mode.selected
               THEN [mode EXCEPT !.selected[mode.cursor + 1] = ~mode.selected[mode.cursor + 1]]
               ELSE mode
    /\ last' = Key("Space")
    /\ UNCHANGED <<steps, runtimes, current, global_log, log_scroll, raw, pc, result>>

\* KeyCode::Char('s'): the overlay has no arm for it (`_ => {}`)
AppKeySkip ==
    /\ InAppSelection
    /\ last' = Key("s")
    /\ UNCHANGED <<steps, runtimes, current, global_log, log_scroll, mode, raw, pc, result>>

\* KeyCode::Enter
AppKeyEnter ==
    /\ InAppSelection
    /\ IF CurStep.kind = "AppSelection"
       THEN \E o \in AppOracles(CurStep.params) :
               LET sel == SelectedIndices(mode.selected)
                   r == apply_app_selection(CurStep.params, sel, CurRuntime.log, o)
               IN  /\ SetCurRuntime(AfterHandler(CurRuntime, r))
                   /\ last' = WithPath(Call("Enter", "apply_app_selection", current,
                                            [params |-> CurStep.params, selection |-> sel],
                                            r.res, "none", r.trace, FALSE),
                                       HandlerPath(CurRuntime, r))
       ELSE UNCHANGED runtimes /\ last' = Key("Enter")
    /\ mode' = ModeNone
    /\ log_scroll' = 0
    /\ UNCHANGED <<steps, current, global_log, raw, pc, result>>

----------------------------------------------------------------------------
(* tui.rs: the keys of the git-config overlay *)

InGitConfig == pc = "loop" /\ mode.kind = "GitConfig"

\* KeyCode::Esc, GitAction::Cancel
GitKeyEsc ==
    /\ InGitConfig
    /\ SetCurRuntime(Cancelled(CurRuntime, "Git config cancelled."))
    /\ mode' = ModeNone
    /\ log_scroll' = 0
    /\ last' = WithPath(Key("Esc"), <<"Pending">>)
    /\ UNCHANGED <<steps, current, global_log, raw, pc, result>>

\* tui.rs lines 279-283
NextField(f) ==
    CASE f = "Name" -> "Email" [] f = "Email" -> "Editor" [] f = "Editor" -> "Name"

\* PrevField going forward as Tab does
PrevField_forward(f) ==
    CASE f = "Name" -> "Email" [] f = "Email" -> "Editor" [] f = "Editor" -> "Name"

\* tui.rs lines 286-290
PrevField(f) ==
    CASE f = "Name" -> "Editor" [] f = "Email" -> "Name" [] f = "Editor" -> "Email"

\* KeyCode::Tab
GitKeyTab ==
    /\ InGitConfig
    /\ mode' = [mode EXCEPT !.field = NextField(mode.field)]
    /\ last' = Key("Tab")
    /\ UNCHANGED <<steps, runtimes, current, global_log, log_scroll, raw, pc, result>>

\* KeyCode::BackTab
GitKeyBackTab ==
    /\ InGitConfig
    /\ mode' = [mode EXCEPT !.field = PrevField(mode.field)]
    /\ last' = Key("BackTab")
    /\ UNCHANGED <<steps, runtimes, current, global_log, log_scroll, raw, pc, result>>

\* the buffer the focus is on (tui.rs lines 293-297 and 301-305)
Buf(st) ==
    CASE st.field = "Name" -> st.name
      [] st.field = "Email" -> st.email
      [] st.field = "Editor" -> st.editor

SetBuf(st, b) ==
    CASE st.field = "Name" -> [st EXCEPT !.name = b]
      [] st.field = "Email" -> [st EXCEPT !.email = b]
      [] st.field = "Editor" -> [st EXCEPT !.editor = b]

\* String::pop
Pop(b) == IF b = << >> THEN b ELSE SubSeq(b, 1, Len(b) - 1)

\* KeyCode::Backspace
GitKeyBackspace ==
    /\ InGitConfig
    /\ mode' = SetBuf(mode, Pop(Buf(mode)))
    /\ last' = Key("Backspace")
    /\ UNCHANGED <<steps, runtimes, current, global_log, log_scroll, raw, pc, result>>

\* KeyCode::Char(c)
GitKeyChar ==
    /\ InGitConfig
    /\ Len(mode.name) + Len(mode.email) + Len(mode.editor) < MaxBuf
    /\ \E c \in TypedChars :
          /\ mode' = SetBuf(mode, Append(Buf(mode), c))
          /\ last' = [Key("Char") EXCEPT !.arg = [c |-> c]]
    /\ UNCHANGED <<steps, runtimes, current, global_log, log_scroll, raw, pc, result>>

\* KeyCode::Enter, GitAction::Apply
GitKeyEnter ==
    /\ InGitConfig
    /\ IF CurStep.kind = "GitConfig"
       THEN \E o \in GitOracles :
               LET r == apply_git_config(CurStep.params, mode.name, mode.email,
                                         mode.editor, CurRuntime.log, o)
               IN  /\ SetCurRuntime(AfterHandler(CurRuntime, r))
                   /\ last' = WithPath(Call("Enter", "apply_git_config", current,
                                            [params |-> CurStep.params, name |-> mode.name,
                                             email |-> mode.email, editor |-> mode.editor,
                                             field |-> mode.field],
                                            r.res, "none", r.trace, FALSE),
                                       HandlerPath(CurRuntime, r))
       ELSE UNCHANGED runtimes /\ last' = Key("Enter")
    /\ mode' = ModeNone
    /\ log_scroll' = 0
    /\ UNCHANGED <<steps, current, global_log, raw, pc, result>>

\* any key the current mode has no arm for (`_ => {}`)
KeyOther ==
    /\ pc = "loop"
    /\ last' = Key("other")
    /\ UNCHANGED <<steps, runtimes, current, global_log, log_scroll, mode, raw, pc, result>>

----------------------------------------------------------------------------

Next ==
    \/ Main
    \/ StartSudo
    \/ Restore
    \/ KeyQuit
    \/ KeyNext
    \/ KeyPrev
    \/ KeySkip
    \/ KeyEnterAppSelection
    \/ KeyEnterGitConfig
    \/ KeyEnterRun
    \/ ScrollUp
    \/ ScrollDown
    \/ ScrollPageUp
    \/ ScrollPageDown
    \/ AppKeyEsc
    \/ AppKeyUp
    \/ AppKeyDown
    \/ AppKeySpace
    \/ AppKeySkip
    \/ AppKeyEnter
    \/ GitKeyEsc
    \/ GitKeyTab
    \/ GitKeyBackTab
    \/ GitKeyBackspace
    \/ GitKeyChar
    \/ GitKeyEnter
    \/ KeyOther

Spec == Init /\ [][Next]_vars

----------------------------------------------------------------------------
(* The executor's functions called on their own, on any input.  One call per *)
(* behaviour: steps holds the step (or the params) given, runtimes the       *)
(* runtime after the call, last the arguments, the Result and the commands.  *)

\* the steps run_step is given: every kind, every script present or absent
UnitSteps ==
    {Step(<<"s">>, "Script", pre, main, post, NoParams) :
        pre \in ScriptOpts, main \in ScriptOpts, post \in ScriptOpts}
    \cup AddTextSteps \cup GitConfigSteps \cup AppSelectionSteps
    \cup {PairGitConfig, PairAppSelection}

\* the runtimes run_step is given: a fresh one, and one of an earlier run
UnitRuntimes ==
    {DefaultRuntime,
     [status |-> "Failed", log |-> <<LineC("== Running step ==", <<"s">>)>>],
     [status |-> "Skipped", log |-> <<Line("Step manually skipped.")>>]}

\* the editors apply_git_config is given: empty, blank, plain, with
\* whitespace before, after and around it, and with a quote
UnitEditors ==
    {<< >>, <<" ">>, <<"a">>, <<" ", "a">>, <<"a", " ">>, <<" ", "a", " ">>, <<"'">>}

\* the selections apply_app_selection is given: any indices, in any order
UnitSelections == UNION {[1..n -> 0..MaxApps] : n \in 0..MaxApps}

InitFn ==
    /\ steps = << >>
    /\ runtimes = << >>
    /\ current = 0
    /\ global_log = << >>
    /\ log_scroll = 0
    /\ mode = ModeNone
    /\ raw = FALSE
    /\ pc = "unit"
    /\ result = [kind |-> "none", msg |-> "", cmd |-> << >>]
    /\ last = NoCall

CallRunStep ==
    /\ pc = "unit"
    /\ \E step \in UnitSteps, rt \in UnitRuntimes :
          \E o \in RunStepOracles(step) :
             LET m == run_step(step, rt, o)
             IN  /\ steps' = <<step>>
                 /\ runtimes' = <<[status |-> m.status, log |-> m.log]>>
                 /\ last' = Call("none", "run_step", 0, [step |-> step, runtime |-> rt],
                                 m.res, m.status, m.trace, FALSE)
    /\ pc' = "returned"
    /\ UNCHANGED <<current, global_log, log_scroll, mode, raw, result>>

CallApplyGitConfig ==
    /\ pc = "unit"
    /\ \E d \in DefaultEditors, name \in StrUpTo(MaxStr), email \in StrUpTo(MaxStr),
          editor \in UnitEditors, o \in GitOracles :
          LET params == [NoParams EXCEPT !.default_editor = d]
              r == apply_git_config(params, name, email, editor, << >>, o)
          IN  /\ steps' = <<Step(<<"g">>, "GitConfig", None, None, None, params)>>
              /\ runtimes' = <<[status |-> "Running", log |-> r.log]>>
              /\ last' = Call("none", "apply_git_config", 0,
                              [params |-> params, name |-> name, email |-> email,
                               editor |-> editor],
                              r.res, "none", r.trace, FALSE)
    /\ pc' = "returned"
    /\ UNCHANGED <<current, global_log, log_scroll, mode, raw, result>>

CallApplyAppSelection ==
    /\ pc = "unit"
    /\ \E a \in AppLists \cup {<< >>}, sel \in UnitSelections :
          LET params == [NoParams EXCEPT !.apps = a]
          IN  \E o \in AppOracles(params) :
                 LET r == apply_app_selection(params, sel, << >>, o)
                 IN  /\ steps' = <<Step(<<"i">>, "AppSelection", None, None, None, params)>>
                     /\ runtimes' = <<[status |-> "Running", log |-> r.log]>>
                     /\ last' = Call("none", "apply_app_selection", 0,
                                     [params |-> params, selection |-> sel],
                                     r.res, "none", r.trace, FALSE)
    /\ pc' = "returned"
    /\ UNCHANGED <<current, global_log, log_scroll, mode, raw, result>>

NextFn == CallRunStep \/ CallApplyGitConfig \/ CallApplyAppSelection

SpecFn == InitFn /\ [][NextFn]_vars

----------------------------------------------------------------------------
(* The scroll keys of the dashboard over the whole range of the offset: the *)
(* program is in its loop, on a file of one step, and only the scroll keys   *)
(* are pressed.                                                              *)

InitScroll ==
    /\ steps = <<PairScript>>
    /\ runtimes = <<DefaultRuntime>>
    /\ current = 0
    /\ global_log = start_sudo_session(<< >>, "exit0").log
    /\ log_scroll = 0
    /\ mode = ModeNone
    /\ raw = TRUE
    /\ pc = "loop"
    /\ result = [kind |-> "none", msg |-> "", cmd |-> << >>]
    /\ last = NoCall

NextScroll == KeyUp \/ KeyDown \/ KeyPageUp \/ KeyPageDown

SpecScroll == InitScroll /\ [][NextScroll]_vars

----------------------------------------------------------------------------
(* Vocabulary of the properties *)

StepHandlers == {"run_step", "apply_git_config", "apply_app_selection"}

\* the last event invoked a handler on a step
Handled == last.fn \in StepHandlers

\* the runtime and the definition of the step the last handler worked on
HandledStep == steps[last.idx + 1]
HandledRuntime == runtimes[last.idx + 1]

\* the command of that stage was started by the last handler and exited with out
Exited(stage, out) ==
    \E k \in DOMAIN last.trace : last.trace[k].stage = stage /\ last.trace[k].out = out

\* some command of the last handler could not be started
SpawnFailed == \E k \in DOMAIN last.trace : last.trace[k].out = "spawn_err"

\* a script option holds a script that exits nonzero when it runs
Fails(opt) == opt = Some(FalseCmd)

----------------------------------------------------------------------------
(* C1 *)

\* C1 (as claimed): for every step kind, when a step whose pre-script exits
\* nonzero is run from the dashboard (and every command can be started), no
\* main task and no post-script is invoked (the only command attempted is the
\* pre-script, and neither interactive handler is called) and the step ends
\* Skipped.
C1_PreScriptFailureSkips ==
    (pc = "loop" /\ Handled /\ Fails(HandledStep.pre_script) /\ ~SpawnFailed)
        => /\ last.fn = "run_step"
           /\ \A k \in DOMAIN last.trace : last.trace[k].stage = "pre_script"
           /\ HandledRuntime.status = "Skipped"

----------------------------------------------------------------------------
(* C2 *)

\* C2: run_step on a Script step, every script present or absent: the status
\* is Success iff every script that is present exited zero, Failed iff the
\* main script or the post-script exited nonzero, Skipped iff the pre-script
\* exited nonzero; and when every command starts, the scripts `true` and
\* `false` decide it: Skipped iff the pre-script is `false`, else Failed iff
\* the main script or the post-script is `false`, else Success.
C2_ScriptStatus ==
    (pc = "returned" /\ last.fn = "run_step" /\ steps[1].kind = "Script")
        => LET st == runtimes[1].status
               step == steps[1]
           IN  /\ st = "Success" <=>
                     /\ step.pre_script # None => Exited("pre_script", "exit0")
                     /\ step.script # None => Exited("script", "exit0")
                     /\ step.post_script # None => Exited("post_script", "exit0")
               /\ st = "Failed" <=>
                     Exited("script", "exit1") \/ Exited("post_script", "exit1")
               /\ st = "Skipped" <=> Exited("pre_script", "exit1")
               /\ ~SpawnFailed =>
                     /\ last.res = Ok
                     /\ st = "Skipped" <=> Fails(step.pre_script)
                     /\ st = "Failed" <=>
                           /\ ~Fails(step.pre_script)
                           /\ Fails(step.script) \/ Fails(step.post_script)
                     /\ st = "Success" <=>
                           /\ ~Fails(step.pre_script)
                           /\ ~Fails(step.script)
                           /\ ~Fails(step.post_script)

\* run_step returned on a Script step without a main script whose pre-script
\* exited zero and whose post-script exited nonzero
C2_Witness ==
    /\ pc = "returned" /\ last.fn = "run_step" /\ steps[1].kind = "Script"
    /\ steps[1].script = None
    /\ Exited("pre_script", "exit0") /\ Exited("post_script", "exit1")
    /\ runtimes[1].status = "Failed"

----------------------------------------------------------------------------
(* C3 *)

\* C3: when the app-selection overlay is confirmed, the install commands
\* attempted are those of the apps whose bit is set, each at most once, in
\* ascending index order and without a gap; every one of them is attempted
\* unless an install command could not be started, and an exit code, zero or
\* not, never ends the batch.
C3_EverySelectedAppInstalled ==
    [][(pc = "loop" /\ mode.kind = "AppSelection" /\ last'.key = "Enter")
          => LET chosen == {i \in DOMAIN mode.selected : mode.selected[i]}
                 apps == steps[current + 1].params.apps
                 tr == last'.trace
             IN  /\ last'.fn = "apply_app_selection"
                 /\ \A k \in DOMAIN tr :
                       /\ tr[k].stage = "install"
                       /\ tr[k].n + 1 \in chosen
                       /\ tr[k].cmd = apps[tr[k].n + 1].install
                       /\ \A i \in chosen :
                             i - 1 < tr[k].n => \E j \in 1..(k - 1) : tr[j].n = i - 1
                       /\ k < Len(tr) => tr[k].out \in {"exit0", "exit1"}
                 /\ \A j, k \in DOMAIN tr : j < k => tr[j].n < tr[k].n
                 /\ \/ \A i \in chosen : \E k \in DOMAIN tr : tr[k].n = i - 1
                    \/ tr # << >> /\ tr[Len(tr)].out = "spawn_err"
                 /\ last'.res = Ok => Len(tr) = Cardinality(chosen)]_vars

\* two apps were selected, the first install exited nonzero and the second
\* install was still attempted
C3_Witness ==
    /\ pc = "loop" /\ last.fn = "apply_app_selection" /\ last.key = "Enter"
    /\ Len(last.trace) = 2
    /\ last.trace[1].out = "exit1" /\ last.trace[1].n = 0
    /\ last.trace[2].n = 1

----------------------------------------------------------------------------
(* C4 and C5 *)

\* a string is empty after trimming: it holds nothing but whitespace
Blank(str) == \A i \in DOMAIN str : str[i] = " "

\* what is left of a string between its first and its last non-blank character
Trimmed(str) ==
    IF Blank(str) THEN << >>
    ELSE LET nb == {i \in DOMAIN str : str[i] # " "}
             lo == CHOOSE i \in nb : \A j \in nb : i <= j
             hi == CHOOSE i \in nb : \A j \in nb : j <= i
         IN  [k \in 1..(hi - lo + 1) |-> str[lo + k - 1]]

\* number of single quotes among the first n characters
QuotesBefore(str, n) == Cardinality({j \in 1..n : str[j] = "'"})

\* '<str with every ' replaced by \'>', position by position
Quoted(str) ==
    LET len == Len(str) + QuotesBefore(str, Len(str))
        at(p) == CHOOSE i \in DOMAIN str :
                     /\ i + QuotesBefore(str, i - 1) <= p
                     /\ \A j \in DOMAIN str : j + QuotesBefore(str, j - 1) <= p => j <= i
    IN  <<"'">>
        \o [p \in 1..len |->
              IF str[at(p)] # "'" THEN str[at(p)]
              ELSE IF p = at(p) + QuotesBefore(str, at(p) - 1) THEN "\\" ELSE "'"]
        \o <<"'">>

\* C4: apply_git_config with a name or an email that is blank returns a
\* validation error, attempts no command and leaves the log as it was,
\* whatever the editor and the default editor are.
C4_BlankNameOrEmailRejected ==
    (pc = "returned" /\ last.fn = "apply_git_config"
       /\ (Blank(last.arg.name) \/ Blank(last.arg.email)))
        => /\ last.res.kind = "ValidationError"
           /\ last.trace = << >>
           /\ runtimes[1].log = << >>

\* apply_git_config returned on a name with a character and an email of
\* whitespace only
C4_Witness ==
    /\ pc = "returned" /\ last.fn = "apply_git_config"
    /\ last.arg.name = <<"a">> /\ last.arg.email = <<" ", " ">>
    /\ last.res.kind = "ValidationError"

\* the three commands apply_git_config is to issue for the arguments of the call
C5_Expected ==
    LET a == last.arg
        ed == IF Blank(a.editor) THEN Trimmed(a.params.default_editor)
              ELSE Trimmed(a.editor)
    IN  <<<<"git config --global user.name">> \o Quoted(Trimmed(a.name)),
          <<"git config --global user.email">> \o Quoted(Trimmed(a.email)),
          <<"git config --global core.editor">> \o Quoted(ed)>>

\* C5: apply_git_config with a name and an email that are not blank issues,
\* in this order, git config --global user.name, user.email and core.editor
\* with the trimmed name, the trimmed email and the trimmed editor (the
\* default editor, trimmed, when the editor is blank), each with every single
\* quote replaced by backslash-quote and wrapped in single quotes; it issues
\* all three unless one of them fails, and none after the one that fails.
C5_GitCommandsIssued ==
    (pc = "returned" /\ last.fn = "apply_git_config"
       /\ ~Blank(last.arg.name) /\ ~Blank(last.arg.email))
        => LET tr == last.trace
           IN  /\ Len(tr) \in 1..3
               /\ \A k \in DOMAIN tr :
                     /\ tr[k].stage = "git"
                     /\ tr[k].cmd = C5_Expected[k]
                     /\ k < Len(tr) => tr[k].out = "exit0"
               /\ Len(tr) < 3 => tr[Len(tr)].out # "exit0"
               /\ (Len(tr) = 3 /\ tr[3].out = "exit0") <=> last.res = Ok

\* all three commands were issued for a name with a quote and whitespace
\* around it and a blank editor
C5_Witness ==
    /\ pc = "returned" /\ last.fn = "apply_git_config"
    /\ last.arg.name = <<" ", "'">> /\ last.arg.email = <<"a", " ">>
    /\ last.arg.editor = <<" ">> /\ last.arg.params.default_editor = <<" ", "a">>
    /\ Len(last.trace) = 3
    /\ last.trace[1].cmd = <<"git config --global user.name", "'", "\\", "'", "'">>
    /\ last.trace[3].cmd = <<"git config --global core.editor", "'", "a", "'">>
    /\ last.res = Ok

----------------------------------------------------------------------------
(* C6 and C7 *)

Overlays == {"AppSelection", "GitConfig"}

\* C6: Escape in either overlay, whatever was toggled, moved or typed before,
\* returns the mode to None, sets the status of the step at the cursor to
\* Pending, appends the cancellation note of the overlay to its log and calls
\* no handler: no command is attempted, no other step and no cursor changes.
C6_EscapeCancels ==
    [][(pc = "loop" /\ mode.kind \in Overlays /\ last'.key = "Esc")
          => /\ mode' = ModeNone
             /\ pc' = "loop"
             /\ current' = current
             /\ runtimes'[current + 1].status = "Pending"
             /\ runtimes'[current + 1].log =
                   Append(runtimes[current + 1].log,
                          Line(IF mode.kind = "AppSelection"
                               THEN "App selection cancelled."
                               ELSE "Git config cancelled."))
             /\ \A i \in DOMAIN runtimes : i # current + 1 => runtimes'[i] = runtimes[i]
             /\ last'.fn = "none"
             /\ last'.trace = << >>]_vars

\* an overlay was left by Escape: the step is Pending again
C6_Witness ==
    /\ pc = "loop" /\ last.key = "Esc" /\ mode = ModeNone
    /\ CurStep.kind = "GitConfig"
    /\ CurRuntime.status = "Pending"
    /\ CurRuntime.log[Len(CurRuntime.log)] = Line("Git config cancelled.")

\* C7: every entry into the app-selection overlay, on a step with N apps,
\* creates a selection of exactly N bits, none set, with the focus on index
\* 0, and sets the status of the step to Running, whatever the earlier
\* sessions of the step selected.
C7_FreshSelection ==
    [][(mode.kind = "None" /\ mode'.kind = "AppSelection")
          => /\ steps[current + 1].kind = "AppSelection"
             /\ Len(mode'.selected) = Len(steps[current + 1].params.apps)
             /\ \A i \in DOMAIN mode'.selected : ~mode'.selected[i]
             /\ mode'.cursor = 0
             /\ current' = current
             /\ runtimes'[current + 1].status = "Running"]_vars

\* the overlay was entered again after a session that installed an app
C7_Witness ==
    /\ pc = "loop" /\ mode.kind = "AppSelection" /\ last.key = "Enter"
    /\ Len(mode.selected) = 2
    /\ CurRuntime.status = "Running"
    /\ \E k \in DOMAIN CurRuntime.log : CurRuntime.log[k].t = "Installing"

----------------------------------------------------------------------------
(* C8, C9 and C10 *)

\* a command of the last handler exited nonzero, could not be started, or
\* the handler returned an error (validation, write)
FailureOccurred ==
    \/ last.res # Ok
    \/ \E k \in DOMAIN last.trace : last.trace[k].out # "exit0" /\ last.trace[k].out # "written"

\* every failure of the last handler has its line in the log of the step
FailureLogged ==
    LET log == HandledRuntime.log
    IN  /\ last.res # Ok => log # << >> /\ log[Len(log)] = ErrorLine(last.res)
        /\ \A k \in DOMAIN last.trace :
              last.trace[k].out = "exit1" =>
                 \E j \in DOMAIN log :
                    IF last.trace[k].stage = "install"
                    THEN log[j] = LineC("Installation failed",
                                        HandledStep.params.apps[last.trace[k].n + 1].name)
                    ELSE log[j] = [t |-> "output", c |-> last.trace[k].cmd, x |-> "exit1"]

\* C8 (as claimed): every failure while a step is handled shows in the
\* status of the step, which is not Success, and is recorded in its log.
C8_FailuresVisible ==
    (pc = "loop" /\ Handled /\ FailureOccurred)
        => /\ HandledRuntime.status # "Success"
           /\ FailureLogged

\* C9 (as claimed): when raw mode was left for a blocking operation (the
\* sudo bootstrap, a synchronous run_step), it is entered again once the
\* operation is over, on the error paths too: the loop and the return of
\* run() find the terminal in raw mode.
C9_RawModeReacquired ==
    (last.released /\ pc \in {"loop", "restore"}) => raw

ErrorClasses == {"SpawnError", "CommandFailure", "ValidationError", "WriteError"}

\* every failure of a step handler leaves the program in its loop, with the
\* step in a final status and the failure in its log
StepFailuresConverted ==
    (Handled /\ FailureOccurred)
        => /\ pc = "loop"
           /\ result.kind = "none"
           /\ HandledRuntime.status \in {"Skipped", "Failed", "Success"}
           /\ last.res # Ok => HandledRuntime.status = "Failed"
           /\ FailureLogged

\* C10 (as claimed): no error of the four classes ends the program, each
\* becomes a status and a log line of one step, except a SpawnError of the
\* sudo bootstrap.
C10_OnlyBootstrapSpawnErrorFatal ==
    /\ StepFailuresConverted
    /\ result.kind \in ErrorClasses
          => last.fn = "start_sudo_session" /\ result.kind = "SpawnError"

\* C10 (amended): no error of the four classes ends the program, each
\* becomes a status and a log line of one step, except a failure of the sudo
\* bootstrap, be it a SpawnError or a nonzero exit of `sudo -v`: both end
\* run() with that error.
C10_OnlyBootstrapFailureFatal ==
    /\ StepFailuresConverted
    /\ result.kind \in ErrorClasses
          => /\ last.fn = "start_sudo_session"
             /\ result = last.res
             /\ result.kind \in {"SpawnError", "CommandFailure"}
             /\ pc \in {"restore", "exited"}
    /\ (last.fn = "start_sudo_session" /\ FailureOccurred)
          => result = last.res /\ pc \in {"restore", "exited"}

\* the append of an AddText step failed and the program is still in its loop
C10_Witness ==
    /\ pc = "loop" /\ last.fn = "run_step"
    /\ last.res.kind = "WriteError"
    /\ HandledRuntime.status = "Failed"

----------------------------------------------------------------------------
(* C11 *)

\* C11: while an overlay is active no key changes the step cursor, the step
\* list or the number of runtimes, and none ends the loop; the overlay is
\* left only by Enter or Escape, and then for the dashboard (never for the
\* other overlay).
C11_OverlaySuppressesNavigation ==
    [][(pc = "loop" /\ mode.kind \in Overlays)
          => /\ current' = current
             /\ steps' = steps
             /\ Len(runtimes') = Len(runtimes)
             /\ pc' = "loop"
             /\ result' = result
             /\ mode'.kind # mode.kind
                   => mode' = ModeNone /\ last'.key \in {"Enter", "Esc"}]_vars

\* a key without an arm in the overlay (as `n`, `p` and `q` in the
\* app-selection overlay) was pressed on the first of two steps, after a bit
\* was set: the overlay is still there and the cursor did not move
C11_Witness ==
    /\ pc = "loop" /\ mode.kind = "AppSelection" /\ last.key = "other"
    /\ Len(steps) = 2 /\ current = 0
    /\ mode.selected[1]

----------------------------------------------------------------------------
(* C12 *)

\* the step list passed validation: the App was built
Validated == pc \in {"sudo", "loop", "restore"} \/ (pc = "exited" /\ result.kind # "YamlError")

\* C12: once the step list is validated it is not empty, and after every
\* event 0 <= cursor < len(steps) and there are exactly len(steps) runtimes;
\* next-step at the last step and previous-step at the first step leave the
\* cursor (and the scroll offset) as they are, anywhere else they move the
\* cursor by one.
C12_CursorInBounds ==
    [][/\ Validated'
          => /\ steps' # << >>
             /\ current' \in 0..(Len(steps') - 1)
             /\ Len(runtimes') = Len(steps')
       /\ last'.key = "n"
          => /\ current + 1 = Len(steps) => (current' = current /\ log_scroll' = log_scroll)
             /\ current + 1 < Len(steps) => current' = current + 1
       /\ last'.key = "p"
          => /\ current = 0 => (current' = current /\ log_scroll' = log_scroll)
             /\ current > 0 => current' = current - 1]_vars

\* next-step was pressed at the last of two steps: the scroll offset, which
\* a move of the cursor resets, is still 1
C12_Witness ==
    /\ pc = "loop" /\ last.key = "n"
    /\ Len(steps) = 2 /\ current = 1 /\ Len(runtimes) = 2
    /\ log_scroll = 1

----------------------------------------------------------------------------
(* C13 *)

\* C13: the scroll offset stays within 0..65535 after any sequence of
\* scroll keys; scroll-up and page-up take 1 and 10 off it and stop at 0
\* (an offset smaller than the step becomes 0), scroll-down and page-down
\* add 1 and 10 and stop at 65535: the offset never decreases on them, so it
\* never wraps around.
C13_ScrollSaturates ==
    [][/\ log_scroll' \in 0..U16Max
       /\ (pc = "loop" /\ mode.kind = "None") =>
             /\ last'.key = "Up" =>
                   log_scroll' = (IF log_scroll = 0 THEN 0 ELSE log_scroll - 1)
             /\ last'.key = "PageUp" =>
                   log_scroll' = (IF log_scroll <= 10 THEN 0 ELSE log_scroll - 10)
             /\ last'.key = "Down" =>
                   /\ log_scroll' >= log_scroll
                   /\ log_scroll' = (IF log_scroll = U16Max THEN U16Max
                                     ELSE log_scroll + 1)
             /\ last'.key = "PageDown" =>
                   /\ log_scroll' >= log_scroll
                   /\ log_scroll' = (IF log_scroll >= U16Max - 10 THEN U16Max
                                     ELSE log_scroll + 10)]_vars

\* page-down was pressed with the offset at the top of the range
C13_Witness ==
    /\ pc = "loop" /\ last.key = "PageDown" /\ log_scroll = U16Max

----------------------------------------------------------------------------
(* C14 *)

\* the conditions of validation on a step list; a name, a file, an app name
\* and an install command are filled when they are not empty or, with
\* trimmed, when they are not blank
WellFormed(ss, trimmed) ==
    LET Filled(str) == IF trimmed THEN ~Blank(str) ELSE str # << >>
    IN  /\ ss # << >>
        /\ \A i \in DOMAIN ss :
              LET step == ss[i]
              IN  /\ Filled(step.name)
                  /\ step.kind = "Script" => step.script # None
                  /\ step.kind = "AddText" =>
                        Filled(step.params.file) /\ step.params.content # << >>
                  /\ step.kind = "AppSelection" =>
                        /\ step.params.apps # << >>
                        /\ \A j \in DOMAIN step.params.apps :
                              /\ Filled(step.params.apps[j].name)
                              /\ Filled(step.params.apps[j].install)

\* a rejected list ends main with the validation error before the terminal
\* is touched, the App is built or a command is run
RejectedBeforeCore ==
    ~Validated
        => /\ pc = "exited" /\ result.kind = "YamlError"
           /\ runtimes = << >> /\ global_log = << >>
           /\ ~raw /\ last = NoCall

\* C14 (as claimed): validation accepts a step list iff it has a step, every
\* name is non-empty, every Script step has a main script, every AddText
\* step a non-empty file and content, every AppSelection step at least one
\* app and only apps with a non-empty name and install command; a rejected
\* list never reaches the core: no runtime is created.
C14_ValidationNonEmpty ==
    pc # "main" => /\ Validated <=> WellFormed(steps, FALSE)
                   /\ RejectedBeforeCore

\* C14 (amended): as above, with the name of a step, the file of an AddText
\* step and the name and install command of an app required to be non-empty
\* after trimming (whitespace only is rejected), and the content of an
\* AddText step required to be non-empty as it is.
C14_ValidationNonBlank ==
    pc # "main" => /\ Validated <=> WellFormed(steps, TRUE)
                   /\ RejectedBeforeCore

\* a list of two steps was rejected for the install command of the second,
\* which is whitespace only
C14_Witness ==
    /\ pc = "exited" /\ result.kind = "YamlError"
    /\ Len(steps) = 2 /\ steps[2].kind = "AppSelection"
    /\ Len(steps[2].params.apps) = 1
    /\ steps[2].params.apps[1].install = <<" ">>
    /\ runtimes = << >>

----------------------------------------------------------------------------
(* C15 *)

\* the place of a stage in the pipeline of run_step
StageRank(stage) ==
    CASE stage = "pre_script" -> 1
      [] stage \in {"script", "add_text"} -> 2
      [] stage = "post_script" -> 3

\* the last run_step got past the pre-script: there was none, or it exited zero
MainReached == steps[1].pre_script = None \/ Exited("pre_script", "exit0")

\* the main task of the last run_step succeeded: the main script, if there
\* is one, exited zero; the append of an AddText step was written; the main
\* task of the other kinds is a log line
MainSucceeded ==
    /\ MainReached
    /\ (steps[1].kind = "Script" /\ steps[1].script # None) => Exited("script", "exit0")
    /\ steps[1].kind = "AddText" => Exited("add_text", "written")

\* C15: run_step invokes its stages in the order pre-script, main task,
\* post-script, each at most once and each with the command of the step; the
\* main task is invoked only past the pre-script, and the post-script is
\* invoked iff it is present and the main task succeeded: never after a main
\* script that exited nonzero or an append that failed.
C15_StageOrder ==
    (pc = "returned" /\ last.fn = "run_step")
        => LET tr == last.trace
               step == steps[1]
           IN  /\ \A j, k \in DOMAIN tr : j < k => StageRank(tr[j].stage) < StageRank(tr[k].stage)
               /\ \A k \in DOMAIN tr :
                     /\ tr[k].stage = "pre_script" => step.pre_script = Some(tr[k].cmd)
                     /\ tr[k].stage = "script" =>
                           step.kind = "Script" /\ step.script = Some(tr[k].cmd) /\ MainReached
                     /\ tr[k].stage = "add_text" =>
                           step.kind = "AddText" /\ tr[k].cmd = step.params.file /\ MainReached
                     /\ tr[k].stage = "post_script" => step.post_script = Some(tr[k].cmd)
               /\ (\E k \in DOMAIN tr : tr[k].stage = "post_script")
                     <=> (step.post_script # None /\ MainSucceeded)

\* a step with the three scripts: the pre-script exited zero, the main script
\* nonzero, and no post-script was run
C15_Witness ==
    /\ pc = "returned" /\ last.fn = "run_step"
    /\ steps[1].post_script # None
    /\ Len(last.trace) = 2
    /\ last.trace[1].stage = "pre_script" /\ last.trace[1].out = "exit0"
    /\ last.trace[2].stage = "script" /\ last.trace[2].out = "exit1"

----------------------------------------------------------------------------
(* C16 *)

\* the append of the last run_step failed: the file could not be opened or
\* written
AppendFailed ==
    \E k \in DOMAIN last.trace :
       last.trace[k].stage = "add_text" /\ last.trace[k].out \in {"open_err", "write_err"}

\* C16: when the append of an AddText step run from the dashboard fails with
\* an I/O error, run_step returns that error, nothing of the step runs after
\* it, the step is Failed and the error text is the last entry of its log;
\* the program is still in its loop, in dashboard mode and in raw mode.
C16_AppendFailureFails ==
    (last.key = "Enter" /\ last.fn = "run_step" /\ AppendFailed)
        => LET log == HandledRuntime.log
               tr == last.trace
           IN  /\ HandledStep.kind = "AddText"
               /\ tr[Len(tr)].stage = "add_text"
               /\ last.res.kind = "WriteError"
               /\ last.res.msg = (IF tr[Len(tr)].out = "open_err" THEN "Failed to open file"
                                  ELSE "Failed to write to file")
               /\ HandledRuntime.status = "Failed"
               /\ log[Len(log)] = [t |-> "[ERROR]", c |-> HandledStep.params.file,
                                   x |-> last.res.msg]
               /\ log[Len(log) - 1] = LineC("--- add_text to ---", HandledStep.params.file)
               /\ pc = "loop" /\ mode = ModeNone /\ raw /\ result.kind = "none"

\* the file of an AddText step with a pre-script and a post-script could not
\* be opened
C16_Witness ==
    /\ pc = "loop" /\ last.key = "Enter" /\ last.fn = "run_step"
    /\ HandledStep.kind = "AddText"
    /\ HandledStep.post_script # None
    /\ Len(last.trace) = 2
    /\ last.trace[1].stage = "pre_script"
    /\ last.trace[2].out = "open_err"
    /\ HandledRuntime.status = "Failed"

----------------------------------------------------------------------------
(* C17 *)

\* C17: when a command of a step (a pre-script, main script or post-script
\* of run_step, a git-config command, an app install) cannot be started,
\* nothing of the step is attempted after it, the handler returns that
\* spawn error, the step is Failed and the error is the last entry of its
\* log, and the program stays in its loop; and an app-selection batch stops
\* short of a selected app only on such an error.
C17_SpawnErrorAborts ==
    /\ (Handled /\ SpawnFailed)
          => LET tr == last.trace
                 log == HandledRuntime.log
             IN  /\ tr[Len(tr)].out = "spawn_err"
                 /\ \A k \in 1..(Len(tr) - 1) : tr[k].out # "spawn_err"
                 /\ last.res = SpawnError(tr[Len(tr)].cmd)
                 /\ HandledRuntime.status = "Failed"
                 /\ log[Len(log)] = ErrorLine(SpawnError(tr[Len(tr)].cmd))
                 /\ pc = "loop" /\ mode = ModeNone /\ result.kind = "none"
    /\ (pc = "loop" /\ last.fn = "apply_app_selection"
          /\ Len(last.trace) < Len(last.arg.selection))
          => last.trace # << >> /\ last.trace[Len(last.trace)].out = "spawn_err"

\* two apps were selected and the install of the first could not be
\* started: the second was not attempted and the step is Failed
C17_Witness ==
    /\ pc = "loop" /\ last.fn = "apply_app_selection"
    /\ last.arg.selection = <<0, 1>>
    /\ Len(last.trace) = 1 /\ last.trace[1].out = "spawn_err"
    /\ HandledRuntime.status = "Failed"

----------------------------------------------------------------------------
(* C18 *)

\* the settings of apply_git_config, in the order of its commands
GitKeys ==
    <<"git config --global user.name", "git config --global user.email",
      "git config --global core.editor">>

\* C18: the k-th command apply_git_config issues sets the k-th of user.name,
\* user.email, core.editor; a command that exits nonzero is the last one
\* issued and the error returned names it; the commands before it stay
\* applied: nothing is issued to undo them and their output stays in the
\* log, which then lacks the closing "Git configuration updated." line.
C18_GitFailFast ==
    (pc = "returned" /\ last.fn = "apply_git_config")
        => LET tr == last.trace
               log == runtimes[1].log
               exited == {k \in DOMAIN tr : tr[k].out \in {"exit0", "exit1"}}
           IN  /\ Len(tr) <= 3
               /\ \A k \in DOMAIN tr :
                     /\ tr[k].stage = "git" /\ tr[k].n = k - 1
                     /\ tr[k].cmd[1] = GitKeys[k]
                     /\ tr[k].out = "exit1" =>
                           /\ k = Len(tr)
                           /\ last.res = Err("CommandFailure", "Command failed", tr[k].cmd)
                     /\ k < Len(tr) => tr[k].out = "exit0"
               /\ \A k \in exited : log[k] = [t |-> "output", c |-> tr[k].cmd, x |-> tr[k].out]
               /\ IF last.res = Ok
                  THEN /\ Len(tr) = 3 /\ exited = 1..3
                       /\ log = SubSeq(log, 1, 3) \o <<Line("Git configuration updated.")>>
                  ELSE Len(log) = Cardinality(exited)

\* user.name was set, user.email exited nonzero and core.editor was not issued
C18_Witness ==
    /\ pc = "returned" /\ last.fn = "apply_git_config"
    /\ Len(last.trace) = 2
    /\ last.trace[1].out = "exit0" /\ last.trace[2].out = "exit1"
    /\ last.res.kind = "CommandFailure" /\ last.res.cmd = last.trace[2].cmd
    /\ Len(runtimes[1].log) = 2

----------------------------------------------------------------------------
(* C19 *)

\* the last apply_git_config was given a blank editor and issued core.editor
DefaultEditorUsed ==
    /\ pc = "returned" /\ last.fn = "apply_git_config"
    /\ Blank(last.arg.editor)
    /\ Len(last.trace) = 3

\* C19 (as claimed): when the editor given to apply_git_config is empty
\* after trimming, the value of the core.editor command is the default
\* editor of the params exactly as given, not trimmed.
C19_DefaultEditorVerbatim ==
    DefaultEditorUsed
        => last.trace[3].cmd = <<GitKeys[3]>> \o Quoted(last.arg.params.default_editor)

\* C19 (amended): when the editor given to apply_git_config is empty after
\* trimming, the value of the core.editor command is the default editor of
\* the params with the whitespace around it trimmed off.
C19_DefaultEditorTrimmed ==
    DefaultEditorUsed
        => last.trace[3].cmd = <<GitKeys[3]>> \o Quoted(Trimmed(last.arg.params.default_editor))

\* the editor was empty and the default editor starts with a space:
\* core.editor was set to the default without the space
C19_Witness ==
    /\ DefaultEditorUsed
    /\ last.arg.editor = << >> /\ last.arg.name = <<"a">>
    /\ last.arg.params.default_editor = <<" ", "a">>
    /\ last.trace[3].cmd = <<"git config --global core.editor", "'", "a", "'">>

----------------------------------------------------------------------------
(* C20 *)

\* C20: Enter in an overlay, on whatever field the focus is and whatever
\* bits are set, calls the handler of the overlay on the step at the cursor
\* with the values the overlay holds: apply_git_config with the three
\* buffers as they are, apply_app_selection with the indices of the set
\* bits in ascending order.  If the handler returns an error the step is
\* Failed and the error is the last entry of its log, otherwise the step is
\* Success; the mode is None either way and the cursor stays.
C20_EnterConfirms ==
    [][(pc = "loop" /\ mode.kind \in Overlays /\ last'.key = "Enter")
          => LET step == steps[current + 1]
                 rt == runtimes'[current + 1]
                 a == last'.arg
             IN  /\ mode' = ModeNone
                 /\ current' = current /\ pc' = "loop"
                 /\ last'.idx = current
                 /\ IF mode.kind = "GitConfig"
                    THEN /\ last'.fn = "apply_git_config"
                         /\ a.params = step.params
                         /\ a.name = mode.name /\ a.email = mode.email
                         /\ a.editor = mode.editor
                    ELSE /\ last'.fn = "apply_app_selection"
                         /\ a.params = step.params
                         /\ \A j, k \in DOMAIN a.selection :
                               j < k => a.selection[j] < a.selection[k]
                         /\ {a.selection[k] + 1 : k \in DOMAIN a.selection}
                               = {i \in DOMAIN mode.selected : mode.selected[i]}
                 /\ IF last'.res # Ok
                    THEN /\ rt.status = "Failed"
                         /\ rt.log[Len(rt.log)] = ErrorLine(last'.res)
                    ELSE rt.status = "Success"
                 /\ \A i \in DOMAIN runtimes : i # current + 1 => runtimes'[i] = runtimes[i]]_vars

\* the git-config overlay was confirmed with the focus on the email field,
\* a name and an email typed and the editor erased: the three commands ran
\* and the step is Success
C20_Witness ==
    /\ pc = "loop" /\ last.key = "Enter" /\ last.fn = "apply_git_config"
    /\ last.arg.field = "Email"
    /\ last.arg.name = <<"s">> /\ last.arg.email = <<"s">> /\ last.arg.editor = << >>
    /\ last.res = Ok /\ Len(last.trace) = 3
    /\ HandledRuntime.status = "Success" /\ mode = ModeNone

----------------------------------------------------------------------------
(* C21 *)

\* the header line each kind of run starts with (executor.rs line 60, tui.rs
\* lines 153-156 and 169-172)
Header(step) ==
    LineC(CASE step.kind = "AppSelection" -> "== Running step (app selection) =="
            [] step.kind = "GitConfig" -> "== Running step (git config) =="
            [] OTHER -> "== Running step ==",
          step.name)

\* C21: in every event the statuses assigned to the step at the cursor, one
\* after the other from the status it had, reach Success or Failed only from
\* Running, and the status of no other step changes; Enter on the dashboard,
\* on a step of any kind and in any status, assigns Running first and
\* appends the header line with the name of the step to the log as it was.
C21_TerminalOnlyFromRunning ==
    [][pc = "loop"
          => LET i == current + 1
                 seq == <<runtimes[i].status>> \o last'.path
             IN  /\ runtimes'[i].status = seq[Len(seq)]
                 /\ \A k \in 2..Len(seq) :
                       seq[k] \in {"Success", "Failed"} => seq[k - 1] = "Running"
                 /\ \A j \in DOMAIN runtimes :
                       j # i => runtimes'[j].status = runtimes[j].status
                 /\ (mode.kind = "None" /\ last'.key = "Enter")
                       => /\ last'.path # << >> /\ last'.path[1] = "Running"
                          /\ Len(runtimes'[i].log) > Len(runtimes[i].log)
                          /\ SubSeq(runtimes'[i].log, 1, Len(runtimes[i].log) + 1)
                                = Append(runtimes[i].log, Header(steps[i]))]_vars

\* a Script step that had failed (its log holds the error of the first run)
\* was run again and went through Running to Success
C21_Witness ==
    /\ pc = "loop" /\ last.key = "Enter" /\ last.fn = "run_step"
    /\ last.path = <<"Running", "Success">>
    /\ HandledStep.kind = "Script"
    /\ \E k \in DOMAIN HandledRuntime.log : HandledRuntime.log[k].t = "[ERROR]"

----------------------------------------------------------------------------
(* C22 *)

\* the event just taken was the key `s`: the skip key of the dashboard, a key
\* without an arm in the app-selection overlay, a character typed in the
\* git-config overlay
SkipKeyPressed == last'.key = "s" \/ (last'.key = "Char" /\ last'.arg.c = "s")

SkipNote == Line("Step manually skipped.")

\* C22 (as claimed): the skip key sets the status of the step at the cursor
\* to Skipped from any status, Running included, and appends the manual-skip
\* note to its log.
C22_SkipFromAnyStatus ==
    [][(pc = "loop" /\ SkipKeyPressed)
          => /\ runtimes'[current + 1].status = "Skipped"
             /\ runtimes'[current + 1].log = Append(runtimes[current + 1].log, SkipNote)]_vars

\* C22 (amended): on the dashboard the skip key sets the status of the step
\* at the cursor to Skipped from any status a step has there (Pending,
\* Skipped, Success or Failed) and appends the manual-skip note to its log,
\* touching nothing else; while an overlay is open, which is when the step
\* is Running, the key skips nothing: the runtimes stay as they are, the
\* overlay stays open, and in the git-config overlay the letter goes into
\* the buffer of the focused field.
C22_SkipOnDashboard ==
    [][(pc = "loop" /\ SkipKeyPressed)
          => LET i == current + 1
             IN  IF mode.kind = "None"
                 THEN /\ runtimes[i].status \in {"Pending", "Skipped", "Success", "Failed"}
                      /\ runtimes'[i].status = "Skipped"
                      /\ runtimes'[i].log = Append(runtimes[i].log, SkipNote)
                      /\ \A j \in DOMAIN runtimes : j # i => runtimes'[j] = runtimes[j]
                      /\ mode' = mode /\ current' = current /\ pc' = "loop"
                 ELSE /\ runtimes[i].status = "Running"
                      /\ runtimes' = runtimes
                      /\ mode'.kind = mode.kind /\ current' = current /\ pc' = "loop"
                      /\ mode.kind = "GitConfig" => Buf(mode') = Append(Buf(mode), "s")]_vars

\* a Script step that had run to Success was skipped: the note follows the
\* output of its script
C22_Witness ==
    /\ pc = "loop" /\ last.key = "s" /\ mode = ModeNone
    /\ CurStep.kind = "Script"
    /\ CurRuntime.status = "Skipped"
    /\ Len(CurRuntime.log) = 4
    /\ CurRuntime.log[3] = [t |-> "output", c |-> TrueCmd, x |-> "exit0"]
    /\ CurRuntime.log[4] = SkipNote

----------------------------------------------------------------------------
(* C23 *)

IsPrefix(a, b) == Len(a) <= Len(b) /\ SubSeq(b, 1, Len(a)) = a

Terminal == {"Skipped", "Success", "Failed"}

\* C23: no event takes anything off the log of a step or changes what it
\* holds: the log before is a prefix of the log after.  Enter on the
\* dashboard is taken on a step in any status, the terminal ones included,
\* and starts the run of the step from its beginning whatever the earlier
\* runs did: the header follows the old log; a Script or AddText step goes
\* through run_step, which attempts the pre-script first when there is one
\* and does what it does on a fresh runtime, the old log kept in front; an
\* interactive step gets a fresh overlay.  (That Enter can be taken is
\* looked at in every state of the dashboard once, at the transition of a
\* key without an arm, which every state has.)
C23_LogAppendOnly ==
    [][pc = "loop"
          => /\ \A i \in DOMAIN runtimes : IsPrefix(runtimes[i].log, runtimes'[i].log)
             /\ (mode.kind = "None" /\ LogRoom /\ last'.key = "other")
                   => ENABLED (KeyEnterRun \/ KeyEnterAppSelection \/ KeyEnterGitConfig)
             /\ (mode.kind = "None" /\ last'.key = "Enter")
                   => LET i == current + 1
                          step == steps[i]
                          old == runtimes[i]
                          new == runtimes'[i]
                          tr == last'.trace
                      IN  /\ IsPrefix(Append(old.log, Header(step)), new.log)
                          /\ step.kind \in {"Script", "AddText"} =>
                                /\ last'.fn = "run_step"
                                /\ IF step.pre_script # None
                                   THEN /\ tr # << >>
                                        /\ tr[1].stage = "pre_script"
                                        /\ step.pre_script = Some(tr[1].cmd)
                                   ELSE \A k \in DOMAIN tr : tr[k].stage # "pre_script"
                                /\ \E o \in RunStepOracles(step) :
                                      LET m == run_step(step, DefaultRuntime, o)
                                          rt == AfterRunStep(m)
                                      IN  /\ tr = m.trace
                                          /\ last'.res = m.res
                                          /\ new.status = rt.status
                                          /\ new.log = old.log \o rt.log
                          /\ step.kind = "AppSelection" =>
                                /\ mode' = NewAppSelectionState(step.params)
                                /\ new = [status |-> "Running",
                                          log |-> Append(old.log, Header(step))]
                          /\ step.kind = "GitConfig" =>
                                /\ mode' = NewGitConfigState(step.params)
                                /\ new = [status |-> "Running",
                                          log |-> Append(old.log, Header(step))]]_vars

\* a Script step whose pre-script could not be started, and which was Failed
\* for it, was run again: the pre-script was attempted again and the log of
\* the first run is still there
C23_Witness ==
    /\ pc = "loop" /\ last.key = "Enter" /\ last.fn = "run_step"
    /\ HandledStep.pre_script # None
    /\ Len(HandledRuntime.log) > 4
    /\ HandledRuntime.log[1] = Header(HandledStep)
    /\ HandledRuntime.log[3].t = "[ERROR]"
    /\ HandledRuntime.log[4] = Header(HandledStep)
    /\ last.trace[1].stage = "pre_script"

----------------------------------------------------------------------------
(* C24 *)

\* C24: whatever the mode and the key, an event leaves the status and the
\* log of every step but the one at the cursor as they are; an event that
\* moves the cursor changes no runtime at all, and an event that changes a
\* runtime leaves the cursor where it is; a handler is called on the step at
\* the cursor.
C24_OnlyCurrentRuntimeChanges ==
    [][pc = "loop"
          => /\ \A i \in DOMAIN runtimes :
                   i # current + 1 => runtimes'[i] = runtimes[i]
             /\ current' # current => runtimes' = runtimes
             /\ last'.fn \in StepHandlers => last'.idx = current]_vars

\* the second of two steps was run from its overlay and failed, while the
\* first step, skipped before, is as it was
C24_Witness ==
    /\ pc = "loop" /\ last.key = "Enter" /\ last.fn = "apply_git_config"
    /\ Len(steps) = 2 /\ current = 1
    /\ runtimes[1] = [status |-> "Skipped", log |-> <<SkipNote>>]
    /\ runtimes[2].status = "Failed"

----------------------------------------------------------------------------
(* C25 *)

\* C25: while the app-selection overlay is open the focus index is within
\* 0..len(selected)-1 and the number of bits does not change; Up takes one
\* off the index and leaves it at 0, Down adds one and leaves it at the last
\* index (neither goes round), and neither changes a bit; Space inverts the
\* bit at the focus index and changes no other bit and not the index; no
\* other key that leaves the overlay open changes index or bits.
C25_FocusInBounds ==
    [][(pc = "loop" /\ mode.kind = "AppSelection")
          => LET n == Len(mode.selected)
             IN  /\ mode.cursor \in 0..(n - 1)
                 /\ mode'.kind = "AppSelection" =>
                       /\ mode'.cursor \in 0..(n - 1)
                       /\ Len(mode'.selected) = n
                       /\ last'.key = "Up" =>
                             /\ mode'.cursor = (IF mode.cursor = 0 THEN 0 ELSE mode.cursor - 1)
                             /\ mode'.selected = mode.selected
                       /\ last'.key = "Down" =>
                             /\ mode'.cursor = (IF mode.cursor = n - 1 THEN n - 1
                                                ELSE mode.cursor + 1)
                             /\ mode'.selected = mode.selected
                       /\ last'.key = "Space" =>
                             /\ mode'.cursor = mode.cursor
                             /\ \A i \in 1..n :
                                   mode'.selected[i] = (IF i = mode.cursor + 1
                                                        THEN ~mode.selected[i]
                                                        ELSE mode.selected[i])
                       /\ last'.key \notin {"Up", "Down", "Space"} => mode' = mode]_vars

\* Down was pressed with the focus on the last of two apps, whose bit is the
\* only one set: the focus is still on it
C25_Witness ==
    /\ pc = "loop" /\ mode.kind = "AppSelection" /\ last.key = "Down"
    /\ Len(mode.selected) = 2 /\ mode.cursor = 1
    /\ mode.selected = <<FALSE, TRUE>>

----------------------------------------------------------------------------
(* C26 *)

GitFields == {"Name", "Email", "Editor"}

\* C26: in the git-config overlay Tab moves the focus from Name to Email,
\* from Email to Editor and from Editor to Name, and Shift-Tab from Name to
\* Editor, from Editor to Email and from Email to Name; Shift-Tab after a
\* Tab and Tab after a Shift-Tab give the focus there was, three Tabs (and
\* three Shift-Tabs) too; neither key changes a buffer, a runtime or the
\* cursor, and the overlay stays open.
C26_TabCycles ==
    [][(pc = "loop" /\ mode.kind = "GitConfig" /\ last'.key \in {"Tab", "BackTab"})
          => /\ mode.field \in GitFields
             /\ last'.key = "Tab" =>
                   /\ mode'.field = (CASE mode.field = "Name" -> "Email"
                                       [] mode.field = "Email" -> "Editor"
                                       [] mode.field = "Editor" -> "Name")
                   /\ PrevField(mode'.field) = mode.field
                   /\ NextField(NextField(mode'.field)) = mode.field
             /\ last'.key = "BackTab" =>
                   /\ mode'.field = (CASE mode.field = "Name" -> "Editor"
                                       [] mode.field = "Editor" -> "Email"
                                       [] mode.field = "Email" -> "Name")
                   /\ NextField(mode'.field) = mode.field
                   /\ PrevField(PrevField(mode'.field)) = mode.field
             /\ mode' = [mode EXCEPT !.field = mode'.field]
             /\ runtimes' = runtimes /\ current' = current /\ pc' = "loop"]_vars

\* Tab brought the focus back to Name from Editor, after a character was
\* typed into the email on the way
C26_Witness ==
    /\ pc = "loop" /\ mode.kind = "GitConfig" /\ last.key = "Tab"
    /\ mode.field = "Name"
    /\ mode.name = << >> /\ mode.email = <<"s">>

----------------------------------------------------------------------------
(* C27 *)

\* C27: a step is Running iff an overlay is open and the step is the one at
\* the cursor; so on the dashboard (and once the loop is left) no step is
\* Running, and at most one step is Running in any state.
C27_RunningIffOverlay ==
    /\ \A i \in DOMAIN runtimes :
          runtimes[i].status = "Running" <=> (mode.kind \in Overlays /\ i = current + 1)
    /\ mode.kind = "None" => \A i \in DOMAIN runtimes : runtimes[i].status # "Running"
    /\ Cardinality({i \in DOMAIN runtimes : runtimes[i].status = "Running"}) <= 1

\* the overlay is open on the second of two steps, which is Running, after
\* the first step was run and failed
C27_Witness ==
    /\ pc = "loop" /\ mode.kind = "GitConfig"
    /\ Len(steps) = 2 /\ current = 1
    /\ runtimes[1].status = "Failed"
    /\ runtimes[2].status = "Running"

----------------------------------------------------------------------------
(* C28 *)

\* the handler of each kind of step
HandlerOf(kind) ==
    CASE kind = "AppSelection" -> "apply_app_selection"
      [] kind = "GitConfig" -> "apply_git_config"
      [] OTHER -> "run_step"

\* C28: while the app-selection overlay is open the step at the cursor is an
\* AppSelection step and there are as many bits as it has apps; while the
\* git-config overlay is open the step at the cursor is a GitConfig step.
\* Hence every Enter that ends on the dashboard has called the handler of
\* the kind of the step at the cursor, on that step, and has left it
\* Skipped, Success or Failed, never Running.
C28_OverlayMatchesStep ==
    /\ mode.kind = "AppSelection"
          => /\ CurStep.kind = "AppSelection"
             /\ Len(mode.selected) = Len(CurStep.params.apps)
    /\ mode.kind = "GitConfig" => CurStep.kind = "GitConfig"
    /\ (pc = "loop" /\ last.key = "Enter" /\ mode.kind = "None")
          => /\ last.fn = HandlerOf(CurStep.kind)
             /\ last.idx = current
             /\ IF last.fn = "run_step" THEN last.arg.step = CurStep
                ELSE last.arg.params = CurStep.params
             /\ CurRuntime.status \in Terminal

\* the app-selection overlay of a step with two apps was confirmed with one
\* bit set: apply_app_selection was called and the step is Success
C28_Witness ==
    /\ pc = "loop" /\ last.key = "Enter" /\ mode.kind = "None"
    /\ CurStep.kind = "AppSelection" /\ Len(CurStep.params.apps) = 2
    /\ last.fn = "apply_app_selection"
    /\ last.arg.selection = <<1>>
    /\ CurRuntime.status = "Success"

----------------------------------------------------------------------------
(* C29 *)

Interactive == {"GitConfig", "AppSelection"}

\* C29: with the cursor on an interactive step no key event calls run_step and
\* none attempts the pre-script or the post-script of the step, whether the
\* step has them or not: Enter on the dashboard and the keys of the overlay
\* up to Escape attempt no command at all, and Enter in the overlay attempts
\* the commands of its handler only, the git config commands of a GitConfig
\* step or the install commands of the apps of an AppSelection step.
C29_NoHooksOnInteractive ==
    (pc = "loop" /\ last.key # "none" /\ CurStep.kind \in Interactive)
        => LET tr == last.trace
           IN  /\ last.fn # "run_step"
               /\ \A k \in DOMAIN tr :
                     /\ tr[k].stage \notin {"pre_script", "script", "add_text", "post_script"}
                     /\ tr[k].stage = (IF CurStep.kind = "GitConfig" THEN "git" ELSE "install")
                     /\ CurStep.kind = "GitConfig" => tr[k].cmd[1] = GitKeys[tr[k].n + 1]
                     /\ CurStep.kind = "AppSelection" =>
                           tr[k].cmd = CurStep.params.apps[tr[k].n + 1].install
               /\ tr # << >> => (last.key = "Enter" /\ mode.kind = "None"
                                 /\ last.fn = HandlerOf(CurStep.kind))

\* a GitConfig step with a pre-script and a post-script was confirmed: the
\* three git commands were all that ran and the step is Success
C29_Witness ==
    /\ pc = "loop" /\ last.key = "Enter" /\ last.fn = "apply_git_config"
    /\ CurStep.pre_script = Some(FalseCmd) /\ CurStep.post_script = Some(TrueCmd)
    /\ Len(last.trace) = 3
    /\ \A k \in 1..3 : last.trace[k].stage = "git"
    /\ CurRuntime.status = "Success"

====
